---- MODULE Spec2Model ----
(***************************************************************************)
(* HardLock Vault (PasswordSecurityApp.js): the password assessment        *)
(* pipeline, the crack-time estimator, the generator, bulk analysis and    *)
(* the JSON export of the React component, as a state machine.             *)
(*                                                                         *)
(* Representation.  A JavaScript string is a sequence of one-character     *)
(* strings (<<"a","b">> is 'ab'); a regular expression is the predicate it *)
(* decides.  Entropy is held in micro-bits (bits * 10^6, rounded down).    *)
(***************************************************************************)
EXTENDS Integers, Sequences, FiniteSets, TLC

\* ------------------------------------------------------------------------
\* Characters and the character classes of the regular expressions
\* ------------------------------------------------------------------------

\* [a-z]
LowerChars ==
  { "a","b","c","d","e","f","g","h","i","j","k","l","m",
    "n","o","p","q","r","s","t","u","v","w","x","y","z" }

\* [A-Z]
UpperChars ==
  { "A","B","C","D","E","F","G","H","I","J","K","L","M",
    "N","O","P","Q","R","S","T","U","V","W","X","Y","Z" }

\* [0-9], \d
DigitChars == { "0","1","2","3","4","5","6","7","8","9" }

\* [a-z] under the i flag
IsLetter(c) == c \in LowerChars \/ c \in UpperChars

IsDigit(c) == c \in DigitChars

\* [^a-zA-Z0-9]
IsSymbolChar(c) == ~IsLetter(c) /\ ~IsDigit(c)

\* [\W_] : not a word character, or the underscore.  \w is [A-Za-z0-9_].
IsNonWordOrUnderscore(c) == IsSymbolChar(c)

\* The character class [/-_.] of the date expression: inside brackets "/-_"
\* is the RANGE from "/" (U+002F) to "_" (U+005F), and "." is itself.
DateSeparatorClass ==
  { "/" } \cup DigitChars \cup { ":", ";", "<", "=", ">", "?", "@" }
    \cup UpperChars \cup { "[", "\\", "]", "^", "_" } \cup { "." }

\* String.prototype.toLowerCase, one character
LowerOf ==
  [ c \in UpperChars |->
      CASE c = "A" -> "a" [] c = "B" -> "b" [] c = "C" -> "c" [] c = "D" -> "d"
        [] c = "E" -> "e" [] c = "F" -> "f" [] c = "G" -> "g" [] c = "H" -> "h"
        [] c = "I" -> "i" [] c = "J" -> "j" [] c = "K" -> "k" [] c = "L" -> "l"
        [] c = "M" -> "m" [] c = "N" -> "n" [] c = "O" -> "o" [] c = "P" -> "p"
        [] c = "Q" -> "q" [] c = "R" -> "r" [] c = "S" -> "s" [] c = "T" -> "t"
        [] c = "U" -> "u" [] c = "V" -> "v" [] c = "W" -> "w" [] c = "X" -> "x"
        [] c = "Y" -> "y" [] c = "Z" -> "z" ]

UpperOf ==
  [ c \in LowerChars |-> CHOOSE u \in UpperChars : LowerOf[u] = c ]

\* String.prototype.toLowerCase
toLowerCase(s) ==
  [ i \in 1..Len(s) |-> IF s[i] \in UpperChars THEN LowerOf[s[i]] ELSE s[i] ]

\* String.prototype.includes
includes(s, pat) ==
  \E i \in 0..(Len(s) - Len(pat)) : SubSeq(s, i + 1, i + Len(pat)) = pat

\* String.prototype.startsWith
startsWith(s, pat) ==
  Len(pat) <= Len(s) /\ SubSeq(s, 1, Len(pat)) = pat

\* Array.prototype.includes / some(x => x === w) over a table
InTable(table, w) == \E i \in 1..Len(table) : table[i] = w

\* every character of s satisfies the class: ^[class]*$
AllChars(s, P(_)) == \A i \in 1..Len(s) : P(s[i])

\* some character of s satisfies the class: /[class]/.test(s)
SomeChar(s, P(_)) == \E i \in 1..Len(s) : P(s[i])

\* the number of characters of s in the class: (s.match(/[class]/g) || []).length
CountChars(s, P(_)) == Cardinality({ i \in 1..Len(s) : P(s[i]) })

\* The length of the longest prefix of s whose characters satisfy the class
RECURSIVE PrefixLen(_, _, _)
PrefixLen(s, P(_), i) ==
  IF i <= Len(s) /\ P(s[i]) THEN PrefixLen(s, P, i + 1) ELSE i - 1

\* The splits of letters-then-digits strings, ^[a-z]+[0-9]+$ under the i flag:
\* the number of leading letters when s is letters followed by digits, else 0
LettersThenDigits(s) ==
  LET n == PrefixLen(s, IsLetter, 1)
  IN  IF n >= 1 /\ n < Len(s) /\ AllChars(SubSeq(s, n + 1, Len(s)), IsDigit)
      THEN n ELSE 0

\* F applied to the value of x, x being evaluated once
With(x, F(_)) == CHOOSE r \in { F(v) : v \in { x } } : TRUE

\* floor(a * p / q) without an intermediate product beyond 2^31
MulDiv(a, p, q) == (a \div q) * p + ((a % q) * p) \div q

Max(a, b) == IF a >= b THEN a ELSE b
Min(a, b) == IF a <= b THEN a ELSE b

\* Math.round(p / q) for p >= 0, q > 0: halves round up
RoundDiv(p, q) == (2 * p + q) \div (2 * q)

\* ------------------------------------------------------------------------
\* The reference data (lines 17-65, 89-101)
\* ------------------------------------------------------------------------

\* COMMON_PREFIXES: admin user test password pass welcome abc qwerty letme hello temp demo login secure dev guest acc
COMMON_PREFIXES ==
  << <<"a","d","m","i","n">>,
     <<"u","s","e","r">>,
     <<"t","e","s","t">>,
     <<"p","a","s","s","w","o","r","d">>,
     <<"p","a","s","s">>,
     <<"w","e","l","c","o","m","e">>,
     <<"a","b","c">>,
     <<"q","w","e","r","t","y">>,
     <<"l","e","t","m","e">>,
     <<"h","e","l","l","o">>,
     <<"t","e","m","p">>,
     <<"d","e","m","o">>,
     <<"l","o","g","i","n">>,
     <<"s","e","c","u","r","e">>,
     <<"d","e","v">>,
     <<"g","u","e","s","t">>,
     <<"a","c","c">> >>

\* COMMON_SUFFIXES: 123 1234 12345 123456 2023 2024 2022 2021 ! !! @ # 1 01 0
COMMON_SUFFIXES ==
  << <<"1","2","3">>,
     <<"1","2","3","4">>,
     <<"1","2","3","4","5">>,
     <<"1","2","3","4","5","6">>,
     <<"2","0","2","3">>,
     <<"2","0","2","4">>,
     <<"2","0","2","2">>,
     <<"2","0","2","1">>,
     <<"!">>,
     <<"!","!">>,
     <<"@">>,
     <<"#">>,
     <<"1">>,
     <<"0","1">>,
     <<"0">> >>

\* COMMON_WORDS_CATEGORIES.food: pizza burger pasta sushi nasi rice bread cheese nasigoreng nasikuning chocolate cookie cake coffee tea banana apple orange chicken beef fish candy sugar salt cream milk water juice soda wine beer
WORDS_food ==
  << <<"p","i","z","z","a">>,
     <<"b","u","r","g","e","r">>,
     <<"p","a","s","t","a">>,
     <<"s","u","s","h","i">>,
     <<"n","a","s","i">>,
     <<"r","i","c","e">>,
     <<"b","r","e","a","d">>,
     <<"c","h","e","e","s","e">>,
     <<"n","a","s","i","g","o","r","e","n","g">>,
     <<"n","a","s","i","k","u","n","i","n","g">>,
     <<"c","h","o","c","o","l","a","t","e">>,
     <<"c","o","o","k","i","e">>,
     <<"c","a","k","e">>,
     <<"c","o","f","f","e","e">>,
     <<"t","e","a">>,
     <<"b","a","n","a","n","a">>,
     <<"a","p","p","l","e">>,
     <<"o","r","a","n","g","e">>,
     <<"c","h","i","c","k","e","n">>,
     <<"b","e","e","f">>,
     <<"f","i","s","h">>,
     <<"c","a","n","d","y">>,
     <<"s","u","g","a","r">>,
     <<"s","a","l","t">>,
     <<"c","r","e","a","m">>,
     <<"m","i","l","k">>,
     <<"w","a","t","e","r">>,
     <<"j","u","i","c","e">>,
     <<"s","o","d","a">>,
     <<"w","i","n","e">>,
     <<"b","e","e","r">> >>

\* COMMON_WORDS_CATEGORIES.animals: cat dog lion tiger bear monkey horse bird fish dragon eagle wolf fox rabbit mouse rat deer cow goat sheep pig duck chicken snake lizard turtle elephant panda koala dolphin whale shark zebra giraffe frog
WORDS_animals ==
  << <<"c","a","t">>,
     <<"d","o","g">>,
     <<"l","i","o","n">>,
     <<"t","i","g","e","r">>,
     <<"b","e","a","r">>,
     <<"m","o","n","k","e","y">>,
     <<"h","o","r","s","e">>,
     <<"b","i","r","d">>,
     <<"f","i","s","h">>,
     <<"d","r","a","g","o","n">>,
     <<"e","a","g","l","e">>,
     <<"w","o","l","f">>,
     <<"f","o","x">>,
     <<"r","a","b","b","i","t">>,
     <<"m","o","u","s","e">>,
     <<"r","a","t">>,
     <<"d","e","e","r">>,
     <<"c","o","w">>,
     <<"g","o","a","t">>,
     <<"s","h","e","e","p">>,
     <<"p","i","g">>,
     <<"d","u","c","k">>,
     <<"c","h","i","c","k","e","n">>,
     <<"s","n","a","k","e">>,
     <<"l","i","z","a","r","d">>,
     <<"t","u","r","t","l","e">>,
     <<"e","l","e","p","h","a","n","t">>,
     <<"p","a","n","d","a">>,
     <<"k","o","a","l","a">>,
     <<"d","o","l","p","h","i","n">>,
     <<"w","h","a","l","e">>,
     <<"s","h","a","r","k">>,
     <<"z","e","b","r","a">>,
     <<"g","i","r","a","f","f","e">>,
     <<"f","r","o","g">> >>

\* COMMON_WORDS_CATEGORIES.colors: red blue green black white orange purple yellow pink brown gold silver gray violet indigo magenta cyan teal maroon navy lime olive aqua coral
WORDS_colors ==
  << <<"r","e","d">>,
     <<"b","l","u","e">>,
     <<"g","r","e","e","n">>,
     <<"b","l","a","c","k">>,
     <<"w","h","i","t","e">>,
     <<"o","r","a","n","g","e">>,
     <<"p","u","r","p","l","e">>,
     <<"y","e","l","l","o","w">>,
     <<"p","i","n","k">>,
     <<"b","r","o","w","n">>,
     <<"g","o","l","d">>,
     <<"s","i","l","v","e","r">>,
     <<"g","r","a","y">>,
     <<"v","i","o","l","e","t">>,
     <<"i","n","d","i","g","o">>,
     <<"m","a","g","e","n","t","a">>,
     <<"c","y","a","n">>,
     <<"t","e","a","l">>,
     <<"m","a","r","o","o","n">>,
     <<"n","a","v","y">>,
     <<"l","i","m","e">>,
     <<"o","l","i","v","e">>,
     <<"a","q","u","a">>,
     <<"c","o","r","a","l">> >>

\* COMMON_WORDS_CATEGORIES.sports: soccer football basketball tennis golf hockey baseball rugby cricket volleyball badminton swimming boxing racing running cycling skating skiing surfing bowling billiards archery fishing hunting karate judo taekwondo
WORDS_sports ==
  << <<"s","o","c","c","e","r">>,
     <<"f","o","o","t","b","a","l","l">>,
     <<"b","a","s","k","e","t","b","a","l","l">>,
     <<"t","e","n","n","i","s">>,
     <<"g","o","l","f">>,
     <<"h","o","c","k","e","y">>,
     <<"b","a","s","e","b","a","l","l">>,
     <<"r","u","g","b","y">>,
     <<"c","r","i","c","k","e","t">>,
     <<"v","o","l","l","e","y","b","a","l","l">>,
     <<"b","a","d","m","i","n","t","o","n">>,
     <<"s","w","i","m","m","i","n","g">>,
     <<"b","o","x","i","n","g">>,
     <<"r","a","c","i","n","g">>,
     <<"r","u","n","n","i","n","g">>,
     <<"c","y","c","l","i","n","g">>,
     <<"s","k","a","t","i","n","g">>,
     <<"s","k","i","i","n","g">>,
     <<"s","u","r","f","i","n","g">>,
     <<"b","o","w","l","i","n","g">>,
     <<"b","i","l","l","i","a","r","d","s">>,
     <<"a","r","c","h","e","r","y">>,
     <<"f","i","s","h","i","n","g">>,
     <<"h","u","n","t","i","n","g">>,
     <<"k","a","r","a","t","e">>,
     <<"j","u","d","o">>,
     <<"t","a","e","k","w","o","n","d","o">> >>

\* COMMON_WORDS_CATEGORIES.tech: computer laptop windows apple android github code tech cyber crypto bitcoin google microsoft facebook twitter instagram youtube tiktok snapchat linkedin wifi internet router server cloud linux ubuntu python java javascript html css php ruby swift data cyber hack secure virus trojan
WORDS_tech ==
  << <<"c","o","m","p","u","t","e","r">>,
     <<"l","a","p","t","o","p">>,
     <<"w","i","n","d","o","w","s">>,
     <<"a","p","p","l","e">>,
     <<"a","n","d","r","o","i","d">>,
     <<"g","i","t","h","u","b">>,
     <<"c","o","d","e">>,
     <<"t","e","c","h">>,
     <<"c","y","b","e","r">>,
     <<"c","r","y","p","t","o">>,
     <<"b","i","t","c","o","i","n">>,
     <<"g","o","o","g","l","e">>,
     <<"m","i","c","r","o","s","o","f","t">>,
     <<"f","a","c","e","b","o","o","k">>,
     <<"t","w","i","t","t","e","r">>,
     <<"i","n","s","t","a","g","r","a","m">>,
     <<"y","o","u","t","u","b","e">>,
     <<"t","i","k","t","o","k">>,
     <<"s","n","a","p","c","h","a","t">>,
     <<"l","i","n","k","e","d","i","n">>,
     <<"w","i","f","i">>,
     <<"i","n","t","e","r","n","e","t">>,
     <<"r","o","u","t","e","r">>,
     <<"s","e","r","v","e","r">>,
     <<"c","l","o","u","d">>,
     <<"l","i","n","u","x">>,
     <<"u","b","u","n","t","u">>,
     <<"p","y","t","h","o","n">>,
     <<"j","a","v","a">>,
     <<"j","a","v","a","s","c","r","i","p","t">>,
     <<"h","t","m","l">>,
     <<"c","s","s">>,
     <<"p","h","p">>,
     <<"r","u","b","y">>,
     <<"s","w","i","f","t">>,
     <<"d","a","t","a">>,
     <<"c","y","b","e","r">>,
     <<"h","a","c","k">>,
     <<"s","e","c","u","r","e">>,
     <<"v","i","r","u","s">>,
     <<"t","r","o","j","a","n">> >>

\* COMMON_WORDS_CATEGORIES.emotions: happy love smile cool angry sad peace hope dream joy excited calm relax stress worry fear brave proud shame guilt trust doubt surprise disgust pleasure pain faith believe
WORDS_emotions ==
  << <<"h","a","p","p","y">>,
     <<"l","o","v","e">>,
     <<"s","m","i","l","e">>,
     <<"c","o","o","l">>,
     <<"a","n","g","r","y">>,
     <<"s","a","d">>,
     <<"p","e","a","c","e">>,
     <<"h","o","p","e">>,
     <<"d","r","e","a","m">>,
     <<"j","o","y">>,
     <<"e","x","c","i","t","e","d">>,
     <<"c","a","l","m">>,
     <<"r","e","l","a","x">>,
     <<"s","t","r","e","s","s">>,
     <<"w","o","r","r","y">>,
     <<"f","e","a","r">>,
     <<"b","r","a","v","e">>,
     <<"p","r","o","u","d">>,
     <<"s","h","a","m","e">>,
     <<"g","u","i","l","t">>,
     <<"t","r","u","s","t">>,
     <<"d","o","u","b","t">>,
     <<"s","u","r","p","r","i","s","e">>,
     <<"d","i","s","g","u","s","t">>,
     <<"p","l","e","a","s","u","r","e">>,
     <<"p","a","i","n">>,
     <<"f","a","i","t","h">>,
     <<"b","e","l","i","e","v","e">> >>

\* COMMON_WORDS_CATEGORIES.names: john mike david james alex sarah emma lisa anna maria chris robert michael william mary patricia linda barbara elizabeth jennifer susan jessica thomas charles daniel matthew mark donald steven paul andrew josh george kevin
WORDS_names ==
  << <<"j","o","h","n">>,
     <<"m","i","k","e">>,
     <<"d","a","v","i","d">>,
     <<"j","a","m","e","s">>,
     <<"a","l","e","x">>,
     <<"s","a","r","a","h">>,
     <<"e","m","m","a">>,
     <<"l","i","s","a">>,
     <<"a","n","n","a">>,
     <<"m","a","r","i","a">>,
     <<"c","h","r","i","s">>,
     <<"r","o","b","e","r","t">>,
     <<"m","i","c","h","a","e","l">>,
     <<"w","i","l","l","i","a","m">>,
     <<"m","a","r","y">>,
     <<"p","a","t","r","i","c","i","a">>,
     <<"l","i","n","d","a">>,
     <<"b","a","r","b","a","r","a">>,
     <<"e","l","i","z","a","b","e","t","h">>,
     <<"j","e","n","n","i","f","e","r">>,
     <<"s","u","s","a","n">>,
     <<"j","e","s","s","i","c","a">>,
     <<"t","h","o","m","a","s">>,
     <<"c","h","a","r","l","e","s">>,
     <<"d","a","n","i","e","l">>,
     <<"m","a","t","t","h","e","w">>,
     <<"m","a","r","k">>,
     <<"d","o","n","a","l","d">>,
     <<"s","t","e","v","e","n">>,
     <<"p","a","u","l">>,
     <<"a","n","d","r","e","w">>,
     <<"j","o","s","h">>,
     <<"g","e","o","r","g","e">>,
     <<"k","e","v","i","n">> >>

\* COMMON_WORDS_CATEGORIES.places: paris london tokyo berlin rome madrid moscow dubai sydney beijing newyork chicago boston seattle atlanta miami vegas texas canada mexico brazil india china japan korea egypt africa europe asia america
WORDS_places ==
  << <<"p","a","r","i","s">>,
     <<"l","o","n","d","o","n">>,
     <<"t","o","k","y","o">>,
     <<"b","e","r","l","i","n">>,
     <<"r","o","m","e">>,
     <<"m","a","d","r","i","d">>,
     <<"m","o","s","c","o","w">>,
     <<"d","u","b","a","i">>,
     <<"s","y","d","n","e","y">>,
     <<"b","e","i","j","i","n","g">>,
     <<"n","e","w","y","o","r","k">>,
     <<"c","h","i","c","a","g","o">>,
     <<"b","o","s","t","o","n">>,
     <<"s","e","a","t","t","l","e">>,
     <<"a","t","l","a","n","t","a">>,
     <<"m","i","a","m","i">>,
     <<"v","e","g","a","s">>,
     <<"t","e","x","a","s">>,
     <<"c","a","n","a","d","a">>,
     <<"m","e","x","i","c","o">>,
     <<"b","r","a","z","i","l">>,
     <<"i","n","d","i","a">>,
     <<"c","h","i","n","a">>,
     <<"j","a","p","a","n">>,
     <<"k","o","r","e","a">>,
     <<"e","g","y","p","t">>,
     <<"a","f","r","i","c","a">>,
     <<"e","u","r","o","p","e">>,
     <<"a","s","i","a">>,
     <<"a","m","e","r","i","c","a">> >>

\* COMMON_WORDS_CATEGORIES.months: january february march april may june july august september october november december jan feb mar apr jun jul aug sep oct nov dec
WORDS_months ==
  << <<"j","a","n","u","a","r","y">>,
     <<"f","e","b","r","u","a","r","y">>,
     <<"m","a","r","c","h">>,
     <<"a","p","r","i","l">>,
     <<"m","a","y">>,
     <<"j","u","n","e">>,
     <<"j","u","l","y">>,
     <<"a","u","g","u","s","t">>,
     <<"s","e","p","t","e","m","b","e","r">>,
     <<"o","c","t","o","b","e","r">>,
     <<"n","o","v","e","m","b","e","r">>,
     <<"d","e","c","e","m","b","e","r">>,
     <<"j","a","n">>,
     <<"f","e","b">>,
     <<"m","a","r">>,
     <<"a","p","r">>,
     <<"j","u","n">>,
     <<"j","u","l">>,
     <<"a","u","g">>,
     <<"s","e","p">>,
     <<"o","c","t">>,
     <<"n","o","v">>,
     <<"d","e","c">> >>

\* COMMON_WORDS_CATEGORIES.days: monday tuesday wednesday thursday friday saturday sunday mon tue wed thu fri sat sun
WORDS_days ==
  << <<"m","o","n","d","a","y">>,
     <<"t","u","e","s","d","a","y">>,
     <<"w","e","d","n","e","s","d","a","y">>,
     <<"t","h","u","r","s","d","a","y">>,
     <<"f","r","i","d","a","y">>,
     <<"s","a","t","u","r","d","a","y">>,
     <<"s","u","n","d","a","y">>,
     <<"m","o","n">>,
     <<"t","u","e">>,
     <<"w","e","d">>,
     <<"t","h","u">>,
     <<"f","r","i">>,
     <<"s","a","t">>,
     <<"s","u","n">> >>

\* OTHER_COMMON_WORDS
OTHER_COMMON_WORDS ==
  << <<"p","a","s","s","w","o","r","d">>,
     <<"s","e","c","r","e","t">>,
     <<"p","r","i","v","a","t","e">>,
     <<"l","e","t","m","e">>,
     <<"h","e","l","l","o">>,
     <<"p","l","e","a","s","e">>,
     <<"m","o","n","e","y">>,
     <<"s","u","m","m","e","r">>,
     <<"w","i","n","t","e","r">>,
     <<"s","p","r","i","n","g">>,
     <<"a","u","t","u","m","n">>,
     <<"m","o","n","d","a","y">>,
     <<"t","u","e","s","d","a","y">>,
     <<"w","e","d","n","e","s","d","a","y">>,
     <<"t","h","u","r","s","d","a","y">>,
     <<"f","r","i","d","a","y">>,
     <<"s","a","t","u","r","d","a","y">>,
     <<"s","u","n","d","a","y">>,
     <<"c","o","m","p","a","n","y">>,
     <<"b","u","s","i","n","e","s","s">>,
     <<"o","f","f","i","c","e">>,
     <<"h","o","u","s","e">>,
     <<"g","a","r","d","e","n">>,
     <<"s","c","h","o","o","l">>,
     <<"c","o","l","l","e","g","e">>,
     <<"f","r","i","e","n","d">>,
     <<"f","a","m","i","l","y">>,
     <<"w","e","l","c","o","m","e">>,
     <<"t","h","a","n","k">>,
     <<"s","o","r","r","y">>,
     <<"g","r","e","a","t">>,
     <<"a","w","e","s","o","m","e">>,
     <<"s","u","p","e","r">>,
     <<"n","i","c","e">>,
     <<"h","o","m","e">>,
     <<"w","o","r","k">>,
     <<"p","l","a","y">>,
     <<"s","i","m","p","l","e">>,
     <<"e","a","s","y">>,
     <<"h","a","r","d">>,
     <<"s","t","r","o","n","g">>,
     <<"w","e","a","k">>,
     <<"b","i","g">>,
     <<"s","m","a","l","l">>,
     <<"f","i","r","s","t">>,
     <<"l","a","s","t">>,
     <<"b","e","s","t">>,
     <<"o","n","e">>,
     <<"t","w","o">>,
     <<"t","h","r","e","e">>,
     <<"f","o","u","r">>,
     <<"f","i","v","e">>,
     <<"s","i","x">>,
     <<"s","e","v","e","n">>,
     <<"e","i","g","h","t">>,
     <<"n","i","n","e">>,
     <<"t","e","n">> >>

\* commonPasswords: 123456 password 123456789 12345678 12345 1234567 password123 admin welcome qwerty abc123 Password1 letmein monkey dragon sunshine princess football charlie shadow master jordan superman harley qwerty123 password1 admin123 test123 common123
commonPasswords ==
  << <<"1","2","3","4","5","6">>,
     <<"p","a","s","s","w","o","r","d">>,
     <<"1","2","3","4","5","6","7","8","9">>,
     <<"1","2","3","4","5","6","7","8">>,
     <<"1","2","3","4","5">>,
     <<"1","2","3","4","5","6","7">>,
     <<"p","a","s","s","w","o","r","d","1","2","3">>,
     <<"a","d","m","i","n">>,
     <<"w","e","l","c","o","m","e">>,
     <<"q","w","e","r","t","y">>,
     <<"a","b","c","1","2","3">>,
     <<"P","a","s","s","w","o","r","d","1">>,
     <<"l","e","t","m","e","i","n">>,
     <<"m","o","n","k","e","y">>,
     <<"d","r","a","g","o","n">>,
     <<"s","u","n","s","h","i","n","e">>,
     <<"p","r","i","n","c","e","s","s">>,
     <<"f","o","o","t","b","a","l","l">>,
     <<"c","h","a","r","l","i","e">>,
     <<"s","h","a","d","o","w">>,
     <<"m","a","s","t","e","r">>,
     <<"j","o","r","d","a","n">>,
     <<"s","u","p","e","r","m","a","n">>,
     <<"h","a","r","l","e","y">>,
     <<"q","w","e","r","t","y","1","2","3">>,
     <<"p","a","s","s","w","o","r","d","1">>,
     <<"a","d","m","i","n","1","2","3">>,
     <<"t","e","s","t","1","2","3">>,
     <<"c","o","m","m","o","n","1","2","3">> >>

\* keyboardPatterns: qwerty asdf zxcv 1234 abcd qwer asdfgh 123456 qwertyuiop asdfghjkl zxcvbnm 098765
keyboardPatterns ==
  << <<"q","w","e","r","t","y">>,
     <<"a","s","d","f">>,
     <<"z","x","c","v">>,
     <<"1","2","3","4">>,
     <<"a","b","c","d">>,
     <<"q","w","e","r">>,
     <<"a","s","d","f","g","h">>,
     <<"1","2","3","4","5","6">>,
     <<"q","w","e","r","t","y","u","i","o","p">>,
     <<"a","s","d","f","g","h","j","k","l">>,
     <<"z","x","c","v","b","n","m">>,
     <<"0","9","8","7","6","5">> >>

\* Object.entries(COMMON_WORDS_CATEGORIES), in declaration order (line 22)
COMMON_WORDS_CATEGORIES ==
  << [ category |-> "food",     words |-> WORDS_food,
       label |-> "Food word + number pattern" ],
     [ category |-> "animals",  words |-> WORDS_animals,
       label |-> "Animals word + number pattern" ],
     [ category |-> "colors",   words |-> WORDS_colors,
       label |-> "Colors word + number pattern" ],
     [ category |-> "sports",   words |-> WORDS_sports,
       label |-> "Sports word + number pattern" ],
     [ category |-> "tech",     words |-> WORDS_tech,
       label |-> "Tech word + number pattern" ],
     [ category |-> "emotions", words |-> WORDS_emotions,
       label |-> "Emotions word + number pattern" ],
     [ category |-> "names",    words |-> WORDS_names,
       label |-> "Names word + number pattern" ],
     [ category |-> "places",   words |-> WORDS_places,
       label |-> "Places word + number pattern" ],
     [ category |-> "months",   words |-> WORDS_months,
       label |-> "Months word + number pattern" ],
     [ category |-> "days",     words |-> WORDS_days,
       label |-> "Days word + number pattern" ] >>

\* Object.values(COMMON_WORDS_CATEGORIES).flat(), as the set of its entries
ALL_COMMON_WORDS ==
  UNION { { COMMON_WORDS_CATEGORIES[k].words[i] :
              i \in 1..Len(COMMON_WORDS_CATEGORIES[k].words) } :
          k \in 1..Len(COMMON_WORDS_CATEGORIES) }

\* ------------------------------------------------------------------------
\* Heuristic classifier
\* ------------------------------------------------------------------------

\* a faulty isCommonWord that takes a word of six letters or more that no
\* list knows for uncommon
isCommonWordUncommonFromSix(word) ==
  LET lowercaseWord == toLowerCase(word)
  IN  IF Len(word) < 3 THEN "false"
      ELSE IF lowercaseWord \in ALL_COMMON_WORDS THEN "true"
      ELSE IF \E i \in 1..Len(COMMON_PREFIXES) :
                startsWith(lowercaseWord, COMMON_PREFIXES[i]) THEN "true"
      ELSE IF InTable(OTHER_COMMON_WORDS, lowercaseWord) THEN "true"
      ELSE IF Len(lowercaseWord) <= 5 THEN "0.7"
      ELSE "false"

\* isCommonWord returns one of false, 0.4, 0.7, true; the four values are
\* kept apart as "false", "0.4", "0.7", "true".
isCommonWord(word) ==
  LET lowercaseWord == toLowerCase(word)
  IN  IF Len(word) < 3 THEN "false"
      ELSE IF lowercaseWord \in ALL_COMMON_WORDS THEN "true"
      ELSE IF \E i \in 1..Len(COMMON_PREFIXES) :
                startsWith(lowercaseWord, COMMON_PREFIXES[i]) THEN "true"
      ELSE IF InTable(OTHER_COMMON_WORDS, lowercaseWord) THEN "true"
      ELSE IF Len(lowercaseWord) <= 5 THEN "0.7"
      ELSE IF Len(lowercaseWord) >= 8 THEN "false"
      ELSE "0.4"

\* The maximal runs of one repeated character in s, as the sequence of their
\* substrings, keeping runs of at least minLen: s.match(/(.)\1{minLen-1,}/g).
\* A password holds no line terminator, so "." matches each of its characters.
RunsOf(s, minLen) ==
  LET \* the last position of the run that starts at i
      runEnd[i \in 1..Len(s)] ==
        LET sameFrom[j \in i..Len(s)] ==
              IF j < Len(s) /\ s[j + 1] = s[i] THEN sameFrom[j + 1] ELSE j
        IN  sameFrom[i]
      runs[i \in 1..(Len(s) + 1)] ==
        IF i > Len(s) THEN << >>
        ELSE IF runEnd[i] - i + 1 >= minLen
             THEN << SubSeq(s, i, runEnd[i]) >> \o runs[runEnd[i] + 1]
             ELSE runs[runEnd[i] + 1]
  IN  runs[1]

\* pwd.match(/(.)\1{2,}/g): runs of three or more
RepeatingRuns(s) == RunsOf(s, 3)

\* pwd.match(/(.)\1+/g): runs of two or more
RepeatRuns(s) == RunsOf(s, 2)

\* prefix + suffix for every pair (lines 160-164)
PrefixSuffixCombos ==
  { COMMON_PREFIXES[i] \o COMMON_SUFFIXES[j] :
      i \in 1..Len(COMMON_PREFIXES), j \in 1..Len(COMMON_SUFFIXES) }

\* word + suffix for every dictionary word (lines 167-171)
WordSuffixCombos ==
  { w \o COMMON_SUFFIXES[j] : w \in ALL_COMMON_WORDS, j \in 1..Len(COMMON_SUFFIXES) }

\* common.charAt(0).toUpperCase() + common.slice(1)
Capitalize(s) ==
  IF s = << >> THEN s
  ELSE [ i \in 1..Len(s) |->
           IF i = 1 /\ s[1] \in LowerChars THEN UpperOf[s[1]] ELSE s[i] ]

\* the sequences of isLikelyCommonPassword (line 192)
commonSequences ==
  << <<"0","1","2","3">>, <<"1","2","3","4">>, <<"2","3","4","5">>,
     <<"3","4","5","6">>, <<"4","5","6","7">>, <<"5","6","7","8">>,
     <<"6","7","8","9">>, <<"a","b","c","d">>, <<"w","x","y","z">> >>

\* the commonWords of isLikelyCommonPassword (lines 217-218)
commonWordsForNumbers ==
  << <<"p","a","s","s","w","o","r","d">>, <<"a","d","m","i","n">>,
     <<"u","s","e","r">>, <<"l","o","g","i","n">>,
     <<"w","e","l","c","o","m","e">>, <<"m","a","n","a","g","e","r">>,
     <<"s","e","c","u","r","e">>, <<"s","e","c","u","r","i","t","y">>,
     <<"t","e","s","t">>, <<"s","e","r","v","e","r">>,
     <<"d","a","t","a","b","a","s","e">>, <<"a","c","c","o","u","n","t">>,
     <<"s","y","s","t","e","m">>, <<"n","e","t","w","o","r","k">>,
     <<"d","e","f","a","u","l","t">>, <<"g","u","e","s","t">> >>

\* /^(19|20)\d{2}$/
IsBareYear(s) ==
  /\ Len(s) = 4
  /\ SubSeq(s, 1, 2) \in { <<"1","9">>, <<"2","0">> }
  /\ IsDigit(s[3]) /\ IsDigit(s[4])

\* s matches, from its start, the characters classes cls[1], cls[2], ...
\* (each a set of characters): /^[..][..].../
MatchesAt(s, at, cls) ==
  /\ at + Len(cls) - 1 <= Len(s)
  /\ \A k \in 1..Len(cls) : s[at + k - 1] \in cls[k]

\* /^[a@][d][m][i1][n]|^[p][a@][s$][s$][w][0o][r][d]|^[t][e3][s$][t]/
LeetPrefix(s) ==
  \/ MatchesAt(s, 1, << {"a","@"}, {"d"}, {"m"}, {"i","1"}, {"n"} >>)
  \/ MatchesAt(s, 1, << {"p"}, {"a","@"}, {"s","$"}, {"s","$"}, {"w"},
                        {"0","o"}, {"r"}, {"d"} >>)
  \/ MatchesAt(s, 1, << {"t"}, {"e","3"}, {"s","$"}, {"t"} >>)

\* the classifier with the rule of line 212 alone: a short password of
\* letters only or of digits only
isLikelyCommonPasswordShortOnly(pwd) ==
  /\ pwd # << >>
  /\ Len(pwd) < 8
  /\ (AllChars(pwd, IsLetter) \/ AllChars(pwd, IsDigit))

isLikelyCommonPassword(pwd) ==
  LET lowercasePwd == toLowerCase(pwd)
      len == Len(lowercasePwd)
      repeatingMatch == RepeatingRuns(lowercasePwd)
      letters == LettersThenDigits(lowercasePwd)
  IN  IF pwd = << >> THEN FALSE
      ELSE
        \/ InTable(commonPasswords, lowercasePwd)
        \/ lowercasePwd \in PrefixSuffixCombos
        \/ lowercasePwd \in WordSuffixCombos
        \/ \E i \in 1..Len(commonPasswords) :
             LET common == commonPasswords[i]
             IN  /\ Len(common) > 4
                 /\ \/ lowercasePwd = common
                    \/ lowercasePwd = common \o <<"!">>
                    \/ lowercasePwd = Capitalize(common)
        \/ \E i \in 1..Len(keyboardPatterns) :
             LET pattern == keyboardPatterns[i]
             IN  /\ Len(pattern) >= 4
                 /\ includes(lowercasePwd, pattern)
                 /\ 2 * Len(pattern) >= len
        \/ \E i \in 1..Len(commonSequences) :
             /\ includes(lowercasePwd, commonSequences[i])
             /\ 2 * Len(commonSequences[i]) >= len
        \/ (repeatingMatch # << >> /\ 2 * Len(repeatingMatch[1]) >= len)
        \/ IsBareYear(lowercasePwd)
        \/ LeetPrefix(lowercasePwd)
        \/ (Len(pwd) < 8 /\ (AllChars(pwd, IsLetter) \/ AllChars(pwd, IsDigit)))
        \/ /\ letters > 0
           /\ len - letters <= 4
           /\ InTable(commonWordsForNumbers, SubSeq(lowercasePwd, 1, letters))

\* ------------------------------------------------------------------------
\* Pattern helpers and the entropy calculator
\* ------------------------------------------------------------------------

hasUpper(pwd) == SomeChar(pwd, LAMBDA c : c \in UpperChars)
hasLower(pwd) == SomeChar(pwd, LAMBDA c : c \in LowerChars)
hasNumber(pwd) == SomeChar(pwd, IsDigit)
hasSymbol(pwd) == SomeChar(pwd, IsSymbolChar)

\* the charset sum of calculateEntropy (lines 235-239), before "|| 1"
CharsetSum(pwd) ==
  (IF hasLower(pwd) THEN 26 ELSE 0) + (IF hasUpper(pwd) THEN 26 ELSE 0)
    + (IF hasNumber(pwd) THEN 10 ELSE 0) + (IF hasSymbol(pwd) THEN 33 ELSE 0)

\* getCharsetSize: "size || 10"
getCharsetSize(pwd) == IF CharsetSum(pwd) = 0 THEN 10 ELSE CharsetSum(pwd)

\* Math.log2 of a charset size, in micro-bits, rounded down
Log2Micro(n) ==
  CASE n = 1  -> 0
    [] n = 10 -> 3321928
    [] n = 26 -> 4700439
    [] n = 33 -> 5044394
    [] n = 36 -> 5169925
    [] n = 43 -> 5426264
    [] n = 52 -> 5700439
    [] n = 59 -> 5882643
    [] n = 62 -> 5954196
    [] n = 69 -> 6108524
    [] n = 85 -> 6409390
    [] n = 95 -> 6569855

\* the patterns of containsKeyboardPattern (line 380)
entropyKeyboardPatterns ==
  << <<"q","w","e","r","t","y">>, <<"a","s","d","f","g","h">>,
     <<"z","x","c","v","b","n","m">>, <<"q","w","e","r","t","z">>,
     <<"1","2","3","4","5">> >>

containsKeyboardPattern(pwd) ==
  \E i \in 1..Len(entropyKeyboardPatterns) :
    includes(toLowerCase(pwd), entropyKeyboardPatterns[i])

\* the patterns of containsSequentialPattern (line 386)
entropySequentialPatterns ==
  << <<"1","2","3","4","5","6">>, <<"1","2","3","4","5">>, <<"1","2","3","4">>,
     <<"a","b","c","d","e","f">>, <<"a","b","c","d","e">>, <<"a","b","c","d">>,
     <<"6","5","4","3","2","1">>, <<"5","4","3","2","1">>, <<"4","3","2","1">> >>

\* The first longest entry of table (a sequence of strings) that s includes,
\* or << >>: "if (includes && pattern.length > longestMatch.length)"
RECURSIVE LongestIncluded(_, _, _, _)
LongestIncluded(s, table, i, best) ==
  IF i > Len(table) THEN best
  ELSE IF includes(s, table[i]) /\ Len(table[i]) > Len(best)
       THEN LongestIncluded(s, table, i + 1, table[i])
       ELSE LongestIncluded(s, table, i + 1, best)

containsSequentialPattern(pwd) ==
  LET longestMatch == LongestIncluded(toLowerCase(pwd), entropySequentialPatterns, 1, << >>)
  IN  [ found |-> longestMatch # << >>, pattern |-> longestMatch,
        length |-> Len(longestMatch) ]

\* the sum of the lengths of the strings of a sequence:
\* repeats.reduce((sum, repeat) => sum + repeat.length, 0)
RECURSIVE SumLen(_)
SumLen(ss) == IF ss = << >> THEN 0 ELSE Len(Head(ss)) + SumLen(Tail(ss))

\* lines 242-255: repeated characters take repeatLength / (len * 4) off
RepeatReduction(pwd, entropy) ==
  With(SumLen(RepeatRuns(pwd)),
       LAMBDA repeatLength :
         IF repeatLength > 0
         THEN MulDiv(entropy, 4 * Len(pwd) - repeatLength, 4 * Len(pwd))
         ELSE entropy)

\* lines 257-269: entropyReduction = 0.2 + patternRatio * 0.1 for a
\* sequential pattern, else 0.2 for a keyboard pattern
PatternReduction(pwd, entropy) ==
  With(containsSequentialPattern(pwd),
       LAMBDA seqResult :
         IF seqResult.found
         THEN MulDiv(entropy, 8 * Len(pwd) - seqResult.length, 10 * Len(pwd))
         ELSE IF containsKeyboardPattern(pwd) THEN MulDiv(entropy, 8, 10)
         ELSE entropy)

\* lines 271-274: letters followed by digits take a tenth off
LettersDigitsReduction(pwd, entropy) ==
  IF LettersThenDigits(pwd) > 0 THEN MulDiv(entropy, 9, 10) ELSE entropy

\* calculateEntropy, in micro-bits.  Math.log2(Math.pow(charset, n)) is
\* n * log2(charset); each factor is applied in the order of the code.
calculateEntropy(pwd) ==
  IF pwd = << >> THEN 0
  ELSE
    With(With(With(With(CharsetSum(pwd),
                        LAMBDA charset :
                          Len(pwd) * Log2Micro(IF charset = 0 THEN 1 ELSE charset)),
                   LAMBDA entropy : RepeatReduction(pwd, entropy)),
              LAMBDA entropy : PatternReduction(pwd, entropy)),
         LAMBDA entropy :
           With(LettersDigitsReduction(pwd, entropy), LAMBDA e : IF e < 0 THEN 0 ELSE e))

\* ------------------------------------------------------------------------
\* Crack-time estimator
\* ------------------------------------------------------------------------

\* A crack time in seconds is either a literal of the code, held in
\* microseconds ([kind |-> "literal", micros]), or the computed quotient
\*     2^(bits / 10^6) / (rateM * 10^rateE) * (num / den)
\* ([kind |-> "computed", bits, rateM, rateE, num, den]).
Literal(micros) == [ kind |-> "literal", micros |-> micros ]

Computed(bits, rateM, rateE, factor) ==
  [ kind |-> "computed", bits |-> bits, rateM |-> rateM, rateE |-> rateE,
    num |-> factor.num, den |-> factor.den ]

\* a fraction num / den, not reduced
Fraction(num, den) == [ num |-> num, den |-> den ]

\* the product of a sequence of fractions, not reduced
RECURSIVE Product(_)
Product(fs) ==
  IF fs = << >> THEN Fraction(1, 1)
  ELSE With(Product(Tail(fs)),
            LAMBDA rest : Fraction(Head(fs).num * rest.num, Head(fs).den * rest.den))

\* /^[A-Z][a-z]+\d+[\W_]+$/ : one capital, lowercase letters, digits, symbols
IsCapitalLowerDigitsSymbols(pwd) ==
  /\ Len(pwd) >= 4
  /\ pwd[1] \in UpperChars
  /\ LET a == PrefixLen(pwd, LAMBDA c : c \in LowerChars, 2)
         b == PrefixLen(pwd, IsDigit, a + 1)
         c == PrefixLen(pwd, IsNonWordOrUnderscore, b + 1)
     IN  a >= 2 /\ b > a /\ c > b /\ c = Len(pwd)

\* lines 317-319: a keyboard pattern multiplies the factor by 0.3
KeyboardFactor(pwd) ==
  IF containsKeyboardPattern(pwd) THEN Fraction(3, 10) ELSE Fraction(1, 1)

\* lines 321-327: 0.4 + 0.3 * (1 - length / len) = (7 len - 3 length) / (10 len)
SequentialFactor(pwd) ==
  With(containsSequentialPattern(pwd),
       LAMBDA seqPattern :
         IF seqPattern.found
         THEN Fraction(7 * Len(pwd) - 3 * seqPattern.length, 10 * Len(pwd))
         ELSE Fraction(1, 1))

\* lines 329-337: letters followed by digits; 0.15 when the letters are a
\* likely common password, else 0.5
WordNumberFactor(pwd) ==
  With(LettersThenDigits(pwd),
       LAMBDA letters :
         IF letters > 0
         THEN IF isLikelyCommonPassword(SubSeq(pwd, 1, letters))
              THEN Fraction(15, 100)
              ELSE Fraction(1, 2)
         ELSE Fraction(1, 1))

\* lines 339-347: all four character classes; 0.6 for the predictable
\* Capital-lowercase-digits-symbols shape, else 1.2
ComplexityFactor(pwd) ==
  IF hasUpper(pwd) /\ hasLower(pwd) /\ hasNumber(pwd) /\ hasSymbol(pwd)
  THEN IF IsCapitalLowerDigitsSymbols(pwd) THEN Fraction(6, 10) ELSE Fraction(12, 10)
  ELSE Fraction(1, 1)

\* lines 349-354: 1.3 from sixteen characters on, 0.5 up to eight
LengthFactor(pwd) ==
  IF Len(pwd) >= 16 THEN Fraction(13, 10)
  ELSE IF Len(pwd) <= 8 THEN Fraction(1, 2)
  ELSE Fraction(1, 1)

\* adjustmentFactor = Math.max(0.05, adjustmentFactor) (line 357)
AdjustmentFactor(pwd) ==
  With(Product(<< KeyboardFactor(pwd), SequentialFactor(pwd), WordNumberFactor(pwd),
                  ComplexityFactor(pwd), LengthFactor(pwd) >>),
       LAMBDA f : IF 20 * f.num < f.den THEN Fraction(1, 20) ELSE f)

\* entropy * (0.7 + 0.3 * score / 100) * lengthFactor, capped at 100 bits
\* (lines 301-309)
EffectiveEntropy(entropy, score, pwd) ==
  With(With(MulDiv(entropy, 700 + 3 * score, 1000),
            LAMBDA scaled : IF Len(pwd) <= 20 THEN scaled ELSE MulDiv(scaled, 4, 5)),
       LAMBDA e : IF e > 100 * 1000000 THEN 100 * 1000000 ELSE e)

\* faulty rates: the optimized rig at 100 billion guesses per second
CrackTimesHundredBillion(effectiveEntropy, adjustmentFactor) ==
  [ online    |-> Computed(effectiveEntropy, 1, 3, adjustmentFactor),
    offline   |-> Computed(effectiveEntropy, 1, 9, adjustmentFactor),
    optimized |-> Computed(effectiveEntropy, 1, 11, adjustmentFactor) ]

\* the three rates of lines 360-364
CrackTimes(effectiveEntropy, adjustmentFactor) ==
  [ online    |-> Computed(effectiveEntropy, 1, 3, adjustmentFactor),
    offline   |-> Computed(effectiveEntropy, 1, 9, adjustmentFactor),
    optimized |-> Computed(effectiveEntropy, 5, 10, adjustmentFactor) ]

\* a faulty estimator that lacks the early return for common passwords
calculateTimeToCrackComputedOnly(entropy, isCommon, score, pwd) ==
  With(EffectiveEntropy(entropy, score, pwd),
       LAMBDA e : With(AdjustmentFactor(pwd), LAMBDA f : CrackTimes(e, f)))

\* calculateTimeToCrack (lines 280-366)
calculateTimeToCrack(entropy, isCommon, score, pwd) ==
  IF isCommon
  THEN [ online |-> Literal(1000), offline |-> Literal(100), optimized |-> Literal(10) ]
  ELSE With(EffectiveEntropy(entropy, score, pwd),
            LAMBDA e : With(AdjustmentFactor(pwd), LAMBDA f : CrackTimes(e, f)))

\* ------------------------------------------------------------------------
\* Composite scorer: assessPasswordStrength
\* ------------------------------------------------------------------------

\* One entry of the patterns list: the text of the code's template literal,
\* as its fixed label and the password-derived text spliced into it.
Pattern(label, arg) == [ label |-> label, arg |-> arg ]

\* the sequentialPatterns of assessPasswordStrength (lines 562-569)
sequentialPatterns ==
  << <<"1","2","3","4","5","6">>, <<"1","2","3","4","5">>, <<"1","2","3","4">>,
     <<"a","b","c","d","e","f">>, <<"a","b","c","d","e">>, <<"a","b","c","d">> >>

\* the commonWords of the word + number check (lines 615-616)
highRiskWords ==
  << <<"p","a","s","s","w","o","r","d">>, <<"a","d","m","i","n">>,
     <<"u","s","e","r">>, <<"l","o","g","i","n">>,
     <<"w","e","l","c","o","m","e">>, <<"m","a","n","a","g","e","r">>,
     <<"s","e","c","u","r","e">>, <<"s","e","c","u","r","i","t","y">>,
     <<"t","e","s","t">>, <<"s","e","r","v","e","r">>,
     <<"d","a","t","a","b","a","s","e">>, <<"a","c","c","o","u","n","t">> >>

\* the digit triples of the uncommon word + number branch (lines 655, 663)
digitTriples ==
  << <<"1","2","3">>, <<"2","3","4">>, <<"3","4","5">>, <<"4","5","6">>,
     <<"5","6","7">>, <<"6","7","8">>, <<"7","8","9">>, <<"9","8","7">>,
     <<"8","7","6">>, <<"7","6","5">>, <<"6","5","4">>, <<"5","4","3">>,
     <<"4","3","2">>, <<"3","2","1">> >>

\* /^(123|321|111|222|333|444|555|666|777|888|999|000)$/
simpleTriples ==
  { <<"1","2","3">>, <<"3","2","1">>, <<"1","1","1">>, <<"2","2","2">>,
    <<"3","3","3">>, <<"4","4","4">>, <<"5","5","5">>, <<"6","6","6">>,
    <<"7","7","7">>, <<"8","8","8">>, <<"9","9","9">>, <<"0","0","0">> }

\* repeatingChars.join(', ')
RECURSIVE JoinComma(_)
JoinComma(ss) ==
  IF ss = << >> THEN << >>
  ELSE IF Len(ss) = 1 THEN ss[1]
  ELSE ss[1] \o << ",", " " >> \o JoinComma(Tail(ss))

\* the sum of the numbers of a sequence
RECURSIVE SumSeq(_)
SumSeq(ns) == IF ns = << >> THEN 0 ELSE Head(ns) + SumSeq(Tail(ns))

\* keyboardPatterns.forEach (lines 544-552): the entries the password
\* includes, in table order; each pushes one pattern entry and subtracts
\* Math.round(25 * pattern.length / pwd.length)
KeyboardMatches(pwd) ==
  SelectSeq(keyboardPatterns, LAMBDA pattern : includes(toLowerCase(pwd), pattern))

KeyboardHits(pwd) ==
  LET hits == KeyboardMatches(pwd)
  IN  [ patterns |-> [ i \in 1..Len(hits) |-> Pattern("Keyboard pattern: ", hits[i]) ],
        penalty |-> SumSeq([ i \in 1..Len(hits) |-> RoundDiv(25 * Len(hits[i]), Len(pwd)) ]) ]

\* /^(?:(?:[a-z][0-9])+|(?:[0-9][a-z])+)$/i
IsAlternating(pwd) ==
  /\ Len(pwd) >= 2
  /\ Len(pwd) % 2 = 0
  /\ \/ \A i \in 1..Len(pwd) :
          IF i % 2 = 1 THEN IsLetter(pwd[i]) ELSE IsDigit(pwd[i])
     \/ \A i \in 1..Len(pwd) :
          IF i % 2 = 1 THEN IsDigit(pwd[i]) ELSE IsLetter(pwd[i])

\* /[a@][s$][e3][t+]/i.test(pwd) || /[p][a@][s$][s$][w][0o][r][d]/i.test(pwd)
IsLeetSpeak(pwd) ==
  LET s == toLowerCase(pwd)
  IN  \E at \in 1..Len(s) :
        \/ MatchesAt(s, at, << {"a","@"}, {"s","$"}, {"e","3"}, {"t","+"} >>)
        \/ MatchesAt(s, at, << {"p"}, {"a","@"}, {"s","$"}, {"s","$"}, {"w"},
                               {"0","o"}, {"r"}, {"d"} >>)

\* /^[a-z]+[\W_]+[0-9]+$/i
IsWordSymbolNumber(pwd) ==
  LET a == PrefixLen(pwd, IsLetter, 1)
      b == PrefixLen(pwd, IsNonWordOrUnderscore, a + 1)
      c == PrefixLen(pwd, IsDigit, b + 1)
  IN  a >= 1 /\ b > a /\ c > b /\ c = Len(pwd)

\* /^\d{1,2}[/-_.]\d{1,2}[/-_.](19|20)?\d{2}$/ : the separator class holds
\* digits and capitals, so every split of the string is tried
IsSeparatedDate(pwd) ==
  \E a \in 1..2, b \in 1..2, y \in {2, 4} :
    /\ Len(pwd) = a + 1 + b + 1 + y
    /\ \A i \in 1..a : IsDigit(pwd[i])
    /\ pwd[a + 1] \in DateSeparatorClass
    /\ \A i \in (a + 2)..(a + 1 + b) : IsDigit(pwd[i])
    /\ pwd[a + b + 2] \in DateSeparatorClass
    /\ \A i \in (a + b + 3)..Len(pwd) : IsDigit(pwd[i])
    /\ y = 4 => SubSeq(pwd, a + b + 3, a + b + 4) \in { <<"1","9">>, <<"2","0">> }

\* The adjustments for the number part on the uncommon branch (lines
\* 654-700), after the bonus of 5 for the uncommon word
NumberPartDelta(pwd, numberPart) ==
  (IF \E i \in 1..Len(digitTriples) : includes(numberPart, digitTriples[i])
   THEN Min(Len(numberPart), 3)
          - Min(RoundDiv(10 * Len(LongestIncluded(numberPart, digitTriples, 1, << >>)) * 2,
                         Len(pwd)), 10)
   ELSE IF Len(numberPart) >= 3 THEN Min(5, Len(numberPart) - 2) ELSE 0)
  + (IF numberPart \in simpleTriples THEN -5 ELSE 0)

\* a faulty word + number check that lacks the dictionary categories
WordNumberWithoutCategories(pwd) ==
  LET letters == LettersThenDigits(pwd)
  IN  IF letters < 3 THEN [ patterns |-> << >>, delta |-> 0 ]
      ELSE
        LET wordPart == toLowerCase(SubSeq(pwd, 1, letters))
            commonality == isCommonWord(wordPart)
        IN  IF InTable(highRiskWords, wordPart)
            THEN [ patterns |-> << Pattern("Common word + number pattern", << >>) >>,
                   delta |-> -25 ]
            ELSE IF commonality = "true"
            THEN [ patterns |-> << Pattern("Common word + number pattern", << >>) >>,
                   delta |-> -20 ]
            ELSE IF commonality \in { "0.7", "0.4" }
            THEN [ patterns |-> << Pattern("Potentially common word + number pattern", << >>) >>,
                   delta |-> IF commonality = "0.7" THEN -7 ELSE -4 ]
            ELSE [ patterns |-> << Pattern("Uncommon word + number pattern", << >>) >>,
                   delta |-> 5 + NumberPartDelta(pwd, SubSeq(pwd, letters + 1, Len(pwd))) ]

\* The word + number check (lines 609-703): the pattern entries pushed and
\* the change of the score
WordNumber(pwd) ==
  LET letters == LettersThenDigits(pwd)
      none == [ patterns |-> << >>, delta |-> 0 ]
  IN  IF letters < 3 THEN none
      ELSE
        LET wordPart == toLowerCase(SubSeq(pwd, 1, letters))
            numberPart == SubSeq(pwd, letters + 1, Len(pwd))
            inCategory == { k \in 1..Len(COMMON_WORDS_CATEGORIES) :
                              InTable(COMMON_WORDS_CATEGORIES[k].words, wordPart) }
            commonality == isCommonWord(wordPart)
            isSequential == \E i \in 1..Len(digitTriples) : includes(numberPart, digitTriples[i])
            longestMatch == LongestIncluded(numberPart, digitTriples, 1, << >>)
            \* Math.round(basePenalty * sequentialRatio * 2)
            adjustedPenalty == RoundDiv(10 * Len(longestMatch) * 2, Len(pwd))
            tripleDelta == IF numberPart \in simpleTriples THEN -5 ELSE 0
        IN  IF InTable(highRiskWords, wordPart)
            THEN [ patterns |-> << Pattern("Common word + number pattern", << >>) >>,
                   delta |-> -25 ]
            ELSE IF inCategory # {}
            THEN LET k == CHOOSE k \in inCategory : \A j \in inCategory : k <= j
                 IN  [ patterns |-> << Pattern(COMMON_WORDS_CATEGORIES[k].label, << >>) >>,
                       delta |-> -25 ]
            ELSE IF commonality = "true"
            THEN [ patterns |-> << Pattern("Common word + number pattern", << >>) >>,
                   delta |-> -20 ]
            ELSE IF commonality \in { "0.7", "0.4" }
            THEN [ patterns |-> << Pattern("Potentially common word + number pattern", << >>) >>,
                   delta |-> IF commonality = "0.7" THEN -7 ELSE -4 ]
            ELSE IF isSequential
            THEN [ patterns |-> << Pattern("Uncommon word + number pattern", << >>),
                                   Pattern("Sequential numbers in pattern", << >>) >>,
                   delta |-> 5 - Min(adjustedPenalty, 10) + Min(Len(numberPart), 3)
                               + tripleDelta ]
            ELSE [ patterns |-> << Pattern("Uncommon word + number pattern", << >>) >>,
                   delta |-> 5 + (IF Len(numberPart) >= 3
                                  THEN Min(5, Len(numberPart) - 2) ELSE 0)
                               + tripleDelta ]

\* a faulty strength level that leaves the total adjustment out
StrengthOfUnadjusted(score, totalAdjustment) ==
  IF score >= 90 THEN "Excellent"
  ELSE IF score >= 80 THEN "Very Strong"
  ELSE IF score >= 70 THEN "Strong"
  ELSE IF score >= 50 THEN "Moderate"
  ELSE IF score >= 30 THEN "Weak"
  ELSE "Very Weak"

\* the strength level for a score and the total adjustment (lines 743-771)
StrengthOf(score, totalAdjustment) ==
  IF score >= 90 + totalAdjustment THEN "Excellent"
  ELSE IF score >= 80 + totalAdjustment THEN "Very Strong"
  ELSE IF score >= 70 + totalAdjustment THEN "Strong"
  ELSE IF score >= 50 + totalAdjustment THEN "Moderate"
  ELSE IF score >= 30 + totalAdjustment THEN "Weak"
  ELSE "Very Weak"

StrengthColorOf(strength) ==
  CASE strength = "Excellent"   -> "text-purple-500"
    [] strength = "Very Strong" -> "text-green-500"
    [] strength = "Strong"      -> "text-blue-500"
    [] strength = "Moderate"    -> "text-yellow-500"
    [] strength = "Weak"        -> "text-orange-500"
    [] strength = "Very Weak"   -> "text-red-500"

\* a faulty diversity score that counts one point for each character type
DiversityPointsOneEach(characterTypes) == characterTypes

\* the character diversity points (lines 468-484)
DiversityPoints(characterTypes) ==
  CASE characterTypes = 4 -> 40
    [] characterTypes = 3 -> 30
    [] characterTypes = 2 -> 20
    [] characterTypes = 1 -> 10
    [] OTHER -> 0

\* the length points (lines 518-525)
LengthPoints(length) ==
  IF length >= 16 THEN 30
  ELSE IF length >= 12 THEN 25
  ELSE IF length >= 8 THEN 15
  ELSE IF length >= 6 THEN 10
  ELSE 5

\* the entropy points (lines 528-531), entropy in micro-bits
EntropyPoints(entropy) ==
  IF entropy > 90 * 1000000 THEN 20
  ELSE IF entropy > 70 * 1000000 THEN 15
  ELSE IF entropy > 50 * 1000000 THEN 10
  ELSE IF entropy > 30 * 1000000 THEN 5
  ELSE 0

\* a faulty return that reports the raw entropy: entropy in place of
\* adjustedEntropy
AdjustedEntropyUncapped(entropy, patterns, score) == entropy

\* the adjusted entropy (lines 774-777)
AdjustedEntropy(entropy, patterns, score) ==
  IF Len(patterns) > 0 /\ score < 25 THEN Min(entropy, 40 * 1000000) ELSE entropy

\* a faulty clamp that forgets the lower limit: Math.min(100, score)
ClampScoreWithoutFloor(score) == Min(100, score)

\* Math.max(1, Math.min(100, score))
ClampScore(score) == Max(1, Min(100, score))

\* The findings of assessPasswordStrength on a non-empty password, before
\* any point is counted: the basic checks (lines 452-464), the symbol
\* placement test (lines 488-514) and each pattern check (lines 534-720).
SymbolCount(pwd) == CountChars(pwd, IsSymbolChar)

CharacterTypes(pwd) ==
  (IF hasUpper(pwd) THEN 1 ELSE 0) + (IF hasLower(pwd) THEN 1 ELSE 0)
    + (IF hasNumber(pwd) THEN 1 ELSE 0) + (IF hasSymbol(pwd) THEN 1 ELSE 0)

\* symbolCount === 1 && symbolsOnlyAtPredictablePositions && length < 16
\* && score < 80, score being the diversity points at that place
SymbolPredictable(pwd) ==
  /\ hasSymbol(pwd)
  /\ SymbolCount(pwd) = 1
  /\ (IsSymbolChar(pwd[1]) \/ IsSymbolChar(pwd[Len(pwd)]))
  /\ Len(pwd) < 16
  /\ DiversityPoints(CharacterTypes(pwd)) < 80

\* the else branch: symbolRatio < 0.05 && length > 20
SymbolSparse(pwd) ==
  /\ hasSymbol(pwd)
  /\ ~SymbolPredictable(pwd)
  /\ 20 * SymbolCount(pwd) < Len(pwd)
  /\ Len(pwd) > 20

\* Math.max(3, Math.round(10 - length / 4))
SymbolPenaltyAmount(pwd) == Max(3, (42 - Len(pwd)) \div 4)

Findings(pwd) ==
  [ length |-> Len(pwd),
    hasUpperCase |-> hasUpper(pwd),
    hasLowerCase |-> hasLower(pwd),
    hasNumbers |-> hasNumber(pwd),
    hasSymbols |-> hasSymbol(pwd),
    entropy |-> calculateEntropy(pwd),
    characterTypes |-> CharacterTypes(pwd),
    symbolPredictable |-> SymbolPredictable(pwd),
    symbolSparse |-> SymbolSparse(pwd),
    penaltyAmount |-> SymbolPenaltyAmount(pwd),
    isCommon |-> isLikelyCommonPassword(pwd),
    keyboard |-> KeyboardHits(pwd),
    repeatingChars |-> RepeatingRuns(pwd),
    longestPattern |-> LongestIncluded(toLowerCase(pwd), sequentialPatterns, 1, << >>),
    isAlternating |-> IsAlternating(pwd),
    isLeetSpeak |-> IsLeetSpeak(pwd),
    isWordSymbolNumber |-> IsWordSymbolNumber(pwd),
    wordNumber |-> WordNumber(pwd),
    isDate |-> IsBareYear(pwd) \/ IsSeparatedDate(pwd),
    onlyLetters |-> Len(pwd) > 1 /\ AllChars(pwd, IsLetter),
    onlyNumbers |-> Len(pwd) > 1 /\ AllChars(pwd, IsDigit) ]

\* the points alone, with every deduction left out
RawScoreWithoutDeductions(d) ==
  DiversityPoints(d.characterTypes)
    + LengthPoints(d.length)
    + EntropyPoints(d.entropy)
    + Min(10, d.length)

\* the score before it is normalised (lines 447-725): every addition and
\* subtraction, in the order of the code
RawScore(d) ==
  DiversityPoints(d.characterTypes)
    - (IF d.symbolPredictable THEN d.penaltyAmount ELSE IF d.symbolSparse THEN 2 ELSE 0)
    + LengthPoints(d.length)
    + EntropyPoints(d.entropy)
    - (IF d.isCommon THEN 40 ELSE 0)
    - d.keyboard.penalty
    - (IF d.repeatingChars # << >> THEN 15 ELSE 0)
    - (IF d.longestPattern # << >>
       THEN RoundDiv(20 * Len(d.longestPattern), d.length) ELSE 0)
    - (IF d.isAlternating THEN 15 ELSE 0)
    - (IF d.isLeetSpeak THEN 10 ELSE 0)
    - (IF d.isWordSymbolNumber THEN 15 ELSE 0)
    + d.wordNumber.delta
    - (IF d.isDate THEN 20 ELSE 0)
    - (IF d.onlyLetters THEN 20 ELSE IF d.onlyNumbers THEN 30 ELSE 0)
    + Min(10, d.length)

\* a faulty patterns list that lacks the entry of the common password check
PatternsOfWithoutCommon(d) ==
  (IF d.symbolPredictable
   THEN << Pattern("Single symbol at predictable position", << >>) >> ELSE << >>)
  \o d.keyboard.patterns
  \o (IF d.repeatingChars # << >>
      THEN << Pattern("Repeating characters: ", JoinComma(d.repeatingChars)) >>
      ELSE << >>)
  \o (IF d.longestPattern # << >>
      THEN << Pattern("Sequential pattern: ", d.longestPattern) >> ELSE << >>)
  \o (IF d.isAlternating
      THEN << Pattern("Alternating pattern detected", << >>) >> ELSE << >>)
  \o (IF d.isLeetSpeak
      THEN << Pattern("L33t speak pattern detected", << >>) >> ELSE << >>)
  \o (IF d.isWordSymbolNumber
      THEN << Pattern("Word+symbol+number formula detected", << >>) >> ELSE << >>)
  \o d.wordNumber.patterns
  \o (IF d.isDate THEN << Pattern("Date pattern", << >>) >> ELSE << >>)

\* the patterns list, in the order of the pushes
PatternsOf(d) ==
  (IF d.symbolPredictable
   THEN << Pattern("Single symbol at predictable position", << >>) >> ELSE << >>)
  \o (IF d.isCommon THEN << Pattern("Common password pattern", << >>) >> ELSE << >>)
  \o d.keyboard.patterns
  \o (IF d.repeatingChars # << >>
      THEN << Pattern("Repeating characters: ", JoinComma(d.repeatingChars)) >>
      ELSE << >>)
  \o (IF d.longestPattern # << >>
      THEN << Pattern("Sequential pattern: ", d.longestPattern) >> ELSE << >>)
  \o (IF d.isAlternating
      THEN << Pattern("Alternating pattern detected", << >>) >> ELSE << >>)
  \o (IF d.isLeetSpeak
      THEN << Pattern("L33t speak pattern detected", << >>) >> ELSE << >>)
  \o (IF d.isWordSymbolNumber
      THEN << Pattern("Word+symbol+number formula detected", << >>) >> ELSE << >>)
  \o d.wordNumber.patterns
  \o (IF d.isDate THEN << Pattern("Date pattern", << >>) >> ELSE << >>)

\* the issues list, in the order of the pushes
IssuesOf(d) ==
  (IF d.symbolPredictable
   THEN << "Distribute symbols throughout password for better security" >>
   ELSE << >>)
  \o (IF d.length >= 6 THEN << >> ELSE << "Too short" >>)
  \o (IF d.isCommon THEN << "Common password or pattern detected" >> ELSE << >>)
  \o (IF d.onlyLetters THEN << "Only letters" >>
      ELSE IF d.onlyNumbers THEN << "Only numbers" >> ELSE << >>)
  \o (IF d.hasUpperCase THEN << >> ELSE << "No uppercase" >>)
  \o (IF d.hasLowerCase THEN << >> ELSE << "No lowercase" >>)
  \o (IF d.hasNumbers THEN << >> ELSE << "No numbers" >>)
  \o (IF d.hasSymbols THEN << >> ELSE << "No symbols" >>)

\* a faulty normalisation that lacks the minimum of 65
FloorOverrideOmitted(d, patterns, score) == score

\* the floor for four character types, 12+ characters, no patterns
\* (lines 739-741), applied to the normalised score
FloorOverride(d, patterns, score) ==
  IF d.characterTypes = 4 /\ d.length >= 12 /\ Len(patterns) = 0 /\ ~d.isCommon
  THEN Max(score, 65) ELSE score

\* the score returned (lines 733-741)
FinalScore(d) == FloorOverride(d, PatternsOf(d), ClampScore(RawScore(d)))

\* totalAdjustment (lines 748-750)
TotalAdjustment(d) ==
  (IF Len(PatternsOf(d)) > 0 THEN 10 ELSE 0) + (IF d.isCommon THEN 10 ELSE 0)

\* the object returned for a non-empty password (lines 779-793)
Assessment(d) ==
  [ score |-> FinalScore(d),
    strength |-> StrengthOf(FinalScore(d), TotalAdjustment(d)),
    strengthColor |-> StrengthColorOf(StrengthOf(FinalScore(d), TotalAdjustment(d))),
    entropy |-> AdjustedEntropy(d.entropy, PatternsOf(d), FinalScore(d)),
    patterns |-> PatternsOf(d),
    issues |-> IssuesOf(d),
    hasUpper |-> d.hasUpperCase,
    hasLower |-> d.hasLowerCase,
    hasNumber |-> d.hasNumbers,
    hasSymbol |-> d.hasSymbols,
    length |-> d.length,
    isCommon |-> d.isCommon,
    hasPatterns |-> Len(PatternsOf(d)) > 0 ]

\* a faulty early return that gives the empty password the clamped score 1
assessPasswordStrengthEmptyClamped(pwd) ==
  IF pwd = << >> THEN [ score |-> 1, issues |-> << >>, patterns |-> << >> ]
  ELSE With(Findings(pwd), Assessment)

assessPasswordStrength(pwd) ==
  IF pwd = << >> THEN [ score |-> 0, issues |-> << >>, patterns |-> << >> ]
  ELSE With(Findings(pwd), Assessment)

\* ------------------------------------------------------------------------
\* formatTime (lines 418-441)
\* ------------------------------------------------------------------------

\* the seconds of the year of line 428
YearSeconds == 31556952

\* the seconds of the month of line 427
MonthSeconds == 2629746

\* the seconds of the week of line 426
WeekSeconds == 604800

\* A finite duration of years * YearSeconds + seconds + millis / 1000
\* seconds, with seconds < YearSeconds and millis < 1000; NaN and Infinity
\* are kept apart by kind.
Duration(years, seconds, millis) ==
  [ kind |-> "finite", years |-> years, seconds |-> seconds, millis |-> millis ]

NotANumber == [ kind |-> "NaN", years |-> 0, seconds |-> 0, millis |-> 0 ]

Infinite == [ kind |-> "Infinity", years |-> 0, seconds |-> 0, millis |-> 0 ]

\* the texts formatTime returns: a fixed text, or `${number} unit`
Text(text) == [ kind |-> "text", number |-> 0, unit |-> text ]

Amount(number, unit) == [ kind |-> "amount", number |-> number, unit |-> unit ]

\* Math.round(seconds / unit) for a duration below one year:
\* floor((2 seconds + unit) / (2 unit)), the millis counting for one half
\* second from 500 on
RoundSecondsTo(d, unit) ==
  (2 * d.seconds + unit + (IF d.millis >= 500 THEN 1 ELSE 0)) \div (2 * unit)

\* Math.round(years) for years = d.years + a fraction of a year
RoundYears(d) ==
  d.years + (IF 2 * d.seconds + (IF d.millis >= 500 THEN 1 ELSE 0) >= YearSeconds
             THEN 1 ELSE 0)

\* a faulty rounding that cuts the fraction off
TruncateYearsTo(years, unit) == years \div unit

\* Math.round(years / unit) for unit 10, 100, 1000, 10000: the fraction of
\* a year never reaches the next half unit
RoundYearsTo(years, unit) == (years + unit \div 2) \div unit

formatTime(seconds) ==
  IF seconds.kind # "finite" THEN Text("Virtually forever")
  ELSE IF seconds.years = 0 /\ seconds.seconds = 0 /\ seconds.millis < 1
  THEN Text("Instantly")
  ELSE IF seconds.years = 0 /\ seconds.seconds < 1 THEN Text("Less than a second")
  ELSE IF seconds.years = 0 /\ seconds.seconds < 60
  THEN Amount(RoundSecondsTo(seconds, 1), "seconds")
  ELSE IF seconds.years = 0 /\ seconds.seconds < 3600
  THEN Amount(RoundSecondsTo(seconds, 60), "minutes")
  ELSE IF seconds.years = 0 /\ seconds.seconds < 86400
  THEN Amount(RoundSecondsTo(seconds, 3600), "hours")
  ELSE IF seconds.years = 0 /\ seconds.seconds < WeekSeconds
  THEN Amount(RoundSecondsTo(seconds, 86400), "days")
  ELSE IF seconds.years = 0 /\ seconds.seconds < MonthSeconds
  THEN Amount(RoundSecondsTo(seconds, WeekSeconds), "weeks")
  ELSE IF seconds.years = 0
  THEN Amount(RoundSecondsTo(seconds, MonthSeconds), "months")
  ELSE IF seconds.years < 10 THEN Amount(RoundYears(seconds), "years")
  ELSE IF seconds.years < 100
  THEN Amount(RoundYearsTo(seconds.years, 10) * 10, "years")
  ELSE IF seconds.years < 1000
  THEN Amount(RoundYearsTo(seconds.years, 100) * 100, "years")
  ELSE IF seconds.years < 10000
  THEN Amount(RoundYearsTo(seconds.years, 1000), "K years")
  ELSE IF seconds.years < 1000000
  THEN Amount(RoundYearsTo(seconds.years, 10000) * 10, "K years")
  ELSE Text("1M+ years")

\* ------------------------------------------------------------------------
\* Generator
\* ------------------------------------------------------------------------

\* 'abcdefghijklmnopqrstuvwxyz'
LowercaseCharset ==
  << "a","b","c","d","e","f","g","h","i","j","k","l","m",
     "n","o","p","q","r","s","t","u","v","w","x","y","z" >>

\* 'ABCDEFGHIJKLMNOPQRSTUVWXYZ'
UppercaseCharset ==
  << "A","B","C","D","E","F","G","H","I","J","K","L","M",
     "N","O","P","Q","R","S","T","U","V","W","X","Y","Z" >>

\* '0123456789'
NumberCharset == << "0","1","2","3","4","5","6","7","8","9" >>

\* '!@#$%^&*()_+-=[]{}|;:,.<>?'
SymbolCharset ==
  << "!","@","#","$","%","^","&","*","(",")","_","+","-","=",
     "[","]","{","}","|",";",":",",",".","<",">","?" >>

\* /[il1Lo0O]/
SimilarChars == { "i", "l", "1", "L", "o", "0", "O" }

\* 'bcdfghjklmnpqrstvwxz'
consonants ==
  << "b","c","d","f","g","h","j","k","l","m","n","p","q","r","s","t","v","w","x","z" >>

\* 'aeiou'
vowels == << "a","e","i","o","u" >>

\* '!@#$%'
pronounceableSymbols == << "!","@","#","$","%" >>

\* Math.random() is drawn from the RandDen values 0/RandDen .. (RandDen-1)/RandDen.
RandDen == 7

\* the largest step of a random stream
MaxStep == 1

\* A random stream is the sequence of values successive Math.random() calls
\* return during one generatePassword call; a stream is named by its first
\* value and its step.
RandomStreams == [ start : 0..(RandDen - 1), step : 0..MaxStep ]

\* the numerator of the k-th value (k = 1, 2, ...) of a stream
RandomValue(stream, k) == (stream.start + stream.step * (k - 1)) % RandDen

\* Math.floor(Math.random() * n), for the k-th call
RandomIndex(stream, k, n) == (RandomValue(stream, k) * n) \div RandDen

\* Math.ceil(length / 2)
CeilHalf(length) == (length + 1) \div 2

\* a faulty charset that keeps the look-alike characters
BuildCharsetKeepingSimilar(settings) ==
  (IF settings.includeLowercase THEN LowercaseCharset ELSE << >>)
  \o (IF settings.includeUppercase THEN UppercaseCharset ELSE << >>)
  \o (IF settings.includeNumbers THEN NumberCharset ELSE << >>)
  \o (IF settings.includeSymbols THEN SymbolCharset ELSE << >>)

\* the charset of the non-pronounceable mode (lines 850-858)
BuildCharset(settings) ==
  LET charset ==
        (IF settings.includeLowercase THEN LowercaseCharset ELSE << >>)
        \o (IF settings.includeUppercase THEN UppercaseCharset ELSE << >>)
        \o (IF settings.includeNumbers THEN NumberCharset ELSE << >>)
        \o (IF settings.includeSymbols THEN SymbolCharset ELSE << >>)
  IN  IF settings.excludeSimilar
      THEN SelectSeq(charset, LAMBDA c : c \notin SimilarChars)
      ELSE charset

\* a faulty loop that stops one draw early: i < length - 1
DrawFromCharsetOneShort(charset, length, stream) ==
  [ i \in 1..(length - 1) |-> charset[RandomIndex(stream, i, Len(charset)) + 1] ]

\* the loop of lines 863-865: length draws from the charset
DrawFromCharset(charset, length, stream) ==
  [ i \in 1..length |-> charset[RandomIndex(stream, i, Len(charset)) + 1] ]

\* the pronounceable mode (lines 824-848), before the slice
PronounceableResult(settings, stream) ==
  LET n == CeilHalf(settings.length)
      letters == [ i \in 1..n |->
                     IF (i - 1) % 2 = 0
                     THEN consonants[RandomIndex(stream, i, Len(consonants)) + 1]
                     ELSE vowels[RandomIndex(stream, i, Len(vowels)) + 1] ]
      withNumber == IF settings.includeNumbers /\ Len(letters) < settings.length
                    THEN letters \o << NumberCharset[RandomIndex(stream, n + 1, 10) + 1] >>
                    ELSE letters
      calls == IF Len(withNumber) > Len(letters) THEN n + 1 ELSE n
  IN  IF settings.includeSymbols /\ Len(withNumber) < settings.length
      THEN withNumber \o << pronounceableSymbols[RandomIndex(stream, calls + 1, 5) + 1] >>
      ELSE withNumber

\* String.prototype.slice(0, n)
SliceTo(s, n) == SubSeq(s, 1, Min(n, Len(s)))

\* generatePassword: the value of generatedPassword after the call, given its
\* value before (the early return of line 860 sets nothing)
generatePassword(settings, stream, current) ==
  IF settings.pronounceable
  THEN SliceTo(PronounceableResult(settings, stream), settings.length)
  ELSE LET charset == BuildCharset(settings)
       IN  IF charset = << >> THEN current
           ELSE DrawFromCharset(charset, settings.length, stream)

\* ------------------------------------------------------------------------
\* The component: its state and its handlers
\* ------------------------------------------------------------------------

VARIABLES
  password,           \* useState(''): the text of the analyzer input
  analysis,           \* useState(null): << >> for null, else << the analysis >>
  generatorSettings,  \* the generator configuration
  generatedPassword,  \* useState(''): the password shown by the generator
  bulkPasswords,      \* useState(''): the text of the bulk textarea
  bulkResults,        \* useState([]): the rows of the bulk table
  exported,           \* << >>, or << the last report written by exportResults >>
  formatted           \* << >>, or << the last duration formatTime was given and its text >>

vars == << password, analysis, generatorSettings, generatedPassword,
           bulkPasswords, bulkResults, exported, formatted >>

\* the most chunks of text typed or pasted into the analyzer input
MaxChunks == 3

\* the most chunks of text typed or pasted into the bulk textarea
MaxBulkChunks == 3

\* the chunks a user types or pastes into the analyzer input
Fragments ==
  { <<"a">>, <<"1">>, <<"!">>,
    <<"A","b","!","x","y">>,
    <<"4","3","2">>,
    <<"q","w","e","r","t","y">>,
    <<"1","2","3","4">>,
    <<"p","a","s","s","w","o","r","d">>,
    <<"p","i","z","z","a">>,
    <<"a","a","a">>,
    <<"T","r","0","u","b","4","d","o","r","&","3">>,
    <<"1","9","9","9">> }

\* the chunks a user types or pastes into the bulk textarea
BulkFragments ==
  { <<"\n">>, <<" ">>, <<"a">>,
    <<"!","@","#","$","%","^","&","*">>,
    <<"x","k","c","d","P","Q","R","S">>,
    <<"h","u","n","t","e","r","2">> }

\* the texts made of at most k chunks
RECURSIVE Concats(_, _)
Concats(chunks, k) ==
  IF k = 0 THEN { << >> }
  ELSE LET shorter == Concats(chunks, k - 1)
       IN  shorter \cup { s \o f : s \in shorter, f \in chunks }

TypablePasswords == Concats(Fragments, MaxChunks)

TypableBulkTexts == Concats(BulkFragments, MaxBulkChunks)

\* the slider of the generator: min="4" max="128" (lines 1219-1220)
MinLength == 4
MaxLength == 128

\* the lengths the slider is moved to: the MaxSliderSteps + 1 smallest, the
\* default and the largest
MaxSliderSteps == 2

SliderLengths == (MinLength..(MinLength + MaxSliderSteps)) \cup { 16, MaxLength }

\* the keys of the generator's check boxes (line 1242)
OptionKeys ==
  { "includeUppercase", "includeLowercase", "includeNumbers", "includeSymbols",
    "excludeSimilar", "pronounceable" }

\* the object analyzePassword stores (lines 803-817)
AnalysisOf(pwd, assessment) ==
  [ score |-> assessment.score,
    strength |-> assessment.strength,
    strengthColor |-> assessment.strengthColor,
    entropy |-> assessment.entropy,
    patterns |-> assessment.patterns,
    issues |-> assessment.issues,
    hasUpper |-> assessment.hasUpper,
    hasLower |-> assessment.hasLower,
    hasNumber |-> assessment.hasNumber,
    hasSymbol |-> assessment.hasSymbol,
    length |-> assessment.length,
    isCommon |-> assessment.isCommon,
    hasPatterns |-> assessment.hasPatterns,
    timeToCrack |-> calculateTimeToCrack(assessment.entropy, assessment.isCommon,
                                         assessment.score, pwd),
    feedback |->
      [ i \in 1..Len(assessment.issues) |->
          [ text |-> assessment.issues[i], patterns |-> << >> ] ]
      \o (IF Len(assessment.patterns) > 0
          THEN << [ text |-> "Avoid patterns: ", patterns |-> assessment.patterns ] >>
          ELSE << >>) ]

\* analyzePassword: the value of analysis after the call
analyzePassword(pwd) ==
  IF pwd = << >> THEN << >>
  ELSE << With(assessPasswordStrength(pwd), LAMBDA assessment : AnalysisOf(pwd, assessment)) >>

\* String.prototype.split('\n')
RECURSIVE SplitLines(_, _, _)
SplitLines(text, i, line) ==
  IF i > Len(text) THEN << line >>
  ELSE IF text[i] = "\n" THEN << line >> \o SplitLines(text, i + 1, << >>)
  ELSE SplitLines(text, i + 1, Append(line, text[i]))

\* p.trim() is the empty string: p holds white space only
IsBlank(p) == \A i \in 1..Len(p) : p[i] \in { " ", "\t", "\n", "\r" }

\* one row of the bulk table (lines 873-885); entropy in tenths of a bit:
\* Math.round(assessment.entropy * 10) / 10
BulkRowOf(pwd, assessment) ==
  [ password |-> pwd,
    score |-> assessment.score,
    strength |-> assessment.strength,
    entropy |-> (assessment.entropy + 50000) \div 100000,
    isCommon |-> assessment.isCommon,
    patterns |-> Len(assessment.patterns),
    hasIssues |-> Len(assessment.patterns) > 0 \/ Len(assessment.issues) > 0 ]

BulkRow(pwd) ==
  With(assessPasswordStrength(pwd), LAMBDA assessment : BulkRowOf(pwd, assessment))

\* bulkPasswords.split('\n').filter(p => p.trim())
BulkLines(text) == SelectSeq(SplitLines(text, 1, << >>), LAMBDA p : ~IsBlank(p))

\* analyzeBulkPasswords: the value of bulkResults after the call
analyzeBulk(text) ==
  With(BulkLines(text),
       LAMBDA passwords : [ i \in 1..Len(passwords) |-> With(passwords[i], BulkRow) ])

\* the document exportResults serialises (lines 899-905); the timestamp is
\* left out
ExportData ==
  [ singlePasswordAnalysis |-> analysis,
    bulkAnalysis |-> bulkResults,
    generatorSettings |-> generatorSettings,
    generatedPassword |-> generatedPassword ]

DefaultSettings ==
  [ length |-> 16, includeUppercase |-> TRUE, includeLowercase |-> TRUE,
    includeNumbers |-> TRUE, includeSymbols |-> TRUE,
    excludeSimilar |-> FALSE, pronounceable |-> FALSE ]

\* The state after the first render and its two effects: analyzePassword('')
\* and generatePassword() with the default settings.
Init ==
  /\ password = << >>
  /\ analysis = analyzePassword(<< >>)
  /\ generatorSettings = DefaultSettings
  /\ \E stream \in RandomStreams :
       generatedPassword = generatePassword(DefaultSettings, stream, << >>)
  /\ bulkPasswords = << >>
  /\ bulkResults = << >>
  /\ exported = << >>
  /\ formatted = << >>

\* onChange of the analyzer input (line 1036) and the effect of lines 950-952
SetPassword(value) ==
  /\ password' = value
  /\ analysis' = analyzePassword(value)
  /\ UNCHANGED << generatorSettings, generatedPassword, bulkPasswords, bulkResults, exported, formatted >>

\* the user types or pastes one more chunk at the end of the input
TypePassword(allowed) ==
  \E f \in Fragments :
    \E value \in { password \o f } :
      /\ value \in allowed
      /\ SetPassword(value)

\* the user empties the input
ClearPassword ==
  /\ password # << >>
  /\ SetPassword(<< >>)

\* the settings change (lines 1222, 1242), then the effect of lines 954-956
SetGeneratorSettings(settings) ==
  /\ settings # generatorSettings
  /\ generatorSettings' = settings
  /\ \E stream \in RandomStreams :
       generatedPassword' = generatePassword(settings, stream, generatedPassword)
  /\ UNCHANGED << password, analysis, bulkPasswords, bulkResults, exported, formatted >>

\* onChange of the length slider (line 1222)
SetLength ==
  \E n \in SliderLengths :
    SetGeneratorSettings([ generatorSettings EXCEPT !.length = n ])

\* onChange of one check box (line 1242)
ToggleOption ==
  \E key \in OptionKeys :
    SetGeneratorSettings([ generatorSettings EXCEPT ![key] = ~generatorSettings[key] ])

\* onClick of the two generate buttons (lines 1270, 1285)
ClickGenerateWith(streams) ==
  /\ \E stream \in streams :
       generatedPassword' = generatePassword(generatorSettings, stream, generatedPassword)
  /\ UNCHANGED << password, analysis, generatorSettings, bulkPasswords, bulkResults, exported, formatted >>

ClickGenerate == ClickGenerateWith(RandomStreams)

\* onChange of the bulk textarea (line 1345): one more chunk at the end
TypeBulk(allowed) ==
  \E f \in BulkFragments :
    /\ bulkPasswords \o f \in allowed
    /\ bulkPasswords' = bulkPasswords \o f
    /\ UNCHANGED << password, analysis, generatorSettings, generatedPassword,
                    bulkResults, exported, formatted >>

\* the user empties the bulk textarea
ClearBulk ==
  /\ bulkPasswords # << >>
  /\ bulkPasswords' = << >>
  /\ UNCHANGED << password, analysis, generatorSettings, generatedPassword,
                  bulkResults, exported, formatted >>

\* onClick of the bulk button (line 1354)
AnalyzeBulkPasswords ==
  /\ bulkResults' = analyzeBulk(bulkPasswords)
  /\ UNCHANGED << password, analysis, generatorSettings, generatedPassword,
                  bulkPasswords, exported, formatted >>

\* onClick of the export button (line 975)
ExportResults ==
  /\ exported' = << ExportData >>
  /\ UNCHANGED << password, analysis, generatorSettings, generatedPassword,
                  bulkPasswords, bulkResults, formatted >>

\* the stream of the first render, where the generator is not looked at
FirstStream == [ start |-> 0, step |-> 1 ]

FirstRender ==
  /\ Init
  /\ generatedPassword = generatePassword(DefaultSettings, FirstStream, << >>)

\* The analyzer tab alone
AnalyzerNext == TypePassword(TypablePasswords) \/ ClearPassword

SpecAnalyzer == FirstRender /\ [][AnalyzerNext]_vars

\* The generator tab alone
GeneratorNext == SetLength \/ ToggleOption \/ ClickGenerate

SpecGenerator == Init /\ [][GeneratorNext]_vars

\* The bulk tab alone
BulkNext == TypeBulk(TypableBulkTexts) \/ ClearBulk \/ AnalyzeBulkPasswords

SpecBulk == FirstRender /\ [][BulkNext]_vars

\* The whole component, on a few inputs: one password typed, one list
\* pasted, analysed, a password generated, the report exported
ReportPasswords ==
  { << >>, <<"a","a","a">>, <<"p","i","z","z","a">> }

ReportBulkTexts ==
  { << >>, <<"h","u","n","t","e","r","2">>, <<"h","u","n","t","e","r","2","\n">>,
    <<"a">>, <<"a","\n">> }

ReportStreams == { FirstStream, [ start |-> 3, step |-> 2 ] }

Next ==
  \/ TypePassword(ReportPasswords)
  \/ ClearPassword
  \/ ClickGenerateWith(ReportStreams)
  \/ TypeBulk(ReportBulkTexts)
  \/ ClearBulk
  \/ AnalyzeBulkPasswords
  \/ ExportResults

Spec == FirstRender /\ [][Next]_vars

\* The analyzer tab on the passwords of the worked examples: the chunks a
\* user pastes into the analyzer input
ExampleFragments ==
  { <<"p","a","s","s","w","o","r","d">>,
    <<"1","2","3">>,
    <<"4","5","6">>,
    <<"X","k","9","#","m","Q">>,
    <<"2","!","v","L","7","$">>,
    <<"T","r","0","u","b","4","d","o","r","&","3">>,
    <<"1","2","-","0","5","-">>,
    <<"1","2","/","0","5","/">>,
    <<"1","9","9","9">>,
    <<"1","A","2","B">>,
    <<"9","9">>,
    <<"0","0","0","0","0">> }

ExamplePasswords == Concats(ExampleFragments, MaxChunks)

\* onChange of the analyzer input (line 1036): one more pasted chunk
PasteExample ==
  \E f \in ExampleFragments :
    \E value \in { password \o f } :
      /\ value \in ExamplePasswords
      /\ SetPassword(value)

ExamplesNext == PasteExample \/ ClearPassword

SpecExamples == FirstRender /\ [][ExamplesNext]_vars

\* The analyzer tab on passwords of a word followed by a number: the words
\* and the digits a user types into the analyzer input
WordNumberFragments ==
  { <<"p","a","s","s","w","o","r","d">>,
    <<"p","i","z","z","a">>,
    <<"q","w","e","r","t","y">>,
    <<"z","q","z","q">>,
    <<"Z","q">>,
    <<"1">>,
    <<"9">>,
    <<"1","2","3">>,
    <<"1","1","1">>,
    <<"4","3","2">>,
    <<"1","9","9","9">> }

WordNumberPasswords == Concats(WordNumberFragments, MaxChunks)

\* onChange of the analyzer input (line 1036): a word or a number typed at
\* the end
TypeWordNumber ==
  \E f \in WordNumberFragments :
    \E value \in { password \o f } :
      /\ value \in WordNumberPasswords
      /\ SetPassword(value)

WordNumberNext == TypeWordNumber \/ ClearPassword

SpecWordNumber == FirstRender /\ [][WordNumberNext]_vars

\* The durations given to formatTime: whole years around the steps of the
\* rounding, with a part of a year and a part of a second
DurationYears ==
  { 0, 1, 4, 9, 10, 14, 15, 94, 95, 99, 100, 149, 150, 949, 950, 999,
    1000, 1499, 1500, 9499, 9500, 9999, 10000, 14999, 15000,
    994999, 995000, 999999, 1000000, 5000000 }

DurationSeconds ==
  { 0, 1, 59, 60, 89, 3600, 86400, WeekSeconds, MonthSeconds - 1, MonthSeconds,
    YearSeconds \div 2, YearSeconds - 1 }

DurationMillis == { 0, 1, 500, 999 }

Durations ==
  { Duration(y, s, m) : y \in DurationYears, s \in DurationSeconds, m \in DurationMillis }
  \cup { NotANumber, Infinite }

\* a crack time is rendered (lines 1158-1166, 1318)
RenderTime ==
  /\ \E seconds \in Durations :
       formatted' = << [ seconds |-> seconds, text |-> formatTime(seconds) ] >>
  /\ UNCHANGED << password, analysis, generatorSettings, generatedPassword,
                  bulkPasswords, bulkResults, exported >>

SpecFormatTime == FirstRender /\ [][RenderTime]_vars

\* ------------------------------------------------------------------------
\* Properties
\* ------------------------------------------------------------------------

\* the elements of a sequence
Range(s) == { s[i] : i \in 1..Len(s) }

\* s is q cut short: q is s with characters appended
IsProperPrefix(s, q) == Len(s) < Len(q) /\ SubSeq(q, 1, Len(s)) = s

\* C1, as stated: for every password string p, assessPasswordStrength(p)
\* returns a score with 1 <= score <= 100.
C1_ScoreBetweenOneAndHundred ==
  assessPasswordStrength(password).score \in 1..100

\* C1, amended: for every non-empty password string p the score of
\* assessPasswordStrength(p) satisfies 1 <= score <= 100; for the empty
\* string the score is 0.
C1_ScoreClampedUnlessEmpty ==
  IF password = << >>
  THEN assessPasswordStrength(password).score = 0
  ELSE assessPasswordStrength(password).score \in 1..100

\* a non-empty password whose points add up to less than 1 and whose
\* score is 1
C1_ClampRaisesScore ==
  /\ password # << >>
  /\ With(Findings(password), RawScore) < 1
  /\ assessPasswordStrength(password).score = 1

\* floor(log2(n)) for n >= 1
RECURSIVE FloorLog2(_)
FloorLog2(n) == IF n < 2 THEN 0 ELSE 1 + FloorLog2(n \div 2)

\* A crack time is below 0.01 seconds.  A literal is compared as it is.  A
\* computed time 2^bits / rate * num / den is below 0.01 s when
\*     bits + log2(num) - log2(den) - log2(rate) < log2(0.01) = -6.643856...
\* which is decided on the safe side, in micro-bits: log2(num) is taken as
\* floor + 1, log2(den) and log2(rate) as their floors (log2(10) >= 3.321928,
\* log2(5) >= 2.321928).
Below10ms(t) ==
  IF t.kind = "literal" THEN t.micros < 10000
  ELSE t.bits + (FloorLog2(t.num) + 1) * 1000000 - FloorLog2(t.den) * 1000000
         - (t.rateE * 3321928 + (IF t.rateM = 5 THEN 2321928 ELSE 0))
       < -6643857

AllBelow10ms(times) ==
  Below10ms(times.online) /\ Below10ms(times.offline) /\ Below10ms(times.optimized)

\* C2: for a password whose assessment has isCommon = true,
\* calculateTimeToCrack returns online, offline and optimized estimates
\* that are all below 0.01 seconds, whatever the entropy, the score and the
\* password text passed in.
C2_CommonCracksBelow10ms ==
  /\ (analysis # << >> /\ analysis[1].isCommon) => AllBelow10ms(analysis[1].timeToCrack)
  /\ \A entropy \in { 0, 40 * 1000000, 100 * 1000000, 800 * 1000000 } :
       \A score \in { 0, 1, 50, 100 } :
         AllBelow10ms(calculateTimeToCrack(entropy, TRUE, score, password))

\* a common password of eight characters or more, with over 30 bits of
\* entropy, analysed
C2_LongCommonPasswordAnalysed ==
  /\ analysis # << >>
  /\ analysis[1].isCommon
  /\ Len(password) >= 8
  /\ analysis[1].entropy > 30 * 1000000
  /\ analysis[1].timeToCrack.online = Literal(1000)

\* some include flag of the settings is set
SomeIncludeFlag(settings) ==
  \/ settings.includeLowercase
  \/ settings.includeUppercase
  \/ settings.includeNumbers
  \/ settings.includeSymbols

\* C3: in non-pronounceable mode, for every length of the slider and every
\* setting of the four include flags with at least one flag true, with or
\* without excludeSimilar, generatePassword produces a string of exactly
\* `length` characters.
C3_GeneratedLengthIsLength ==
  (~generatorSettings.pronounceable /\ SomeIncludeFlag(generatorSettings))
    => /\ Len(generatedPassword) = generatorSettings.length
       /\ \A stream \in RandomStreams :
            Len(generatePassword(generatorSettings, stream, generatedPassword))
              = generatorSettings.length

\* the longest password, from digits alone with the look-alikes excluded
C3_LongestDigitsOnly ==
  /\ ~generatorSettings.pronounceable
  /\ generatorSettings.length = MaxLength
  /\ generatorSettings.excludeSimilar
  /\ generatorSettings.includeNumbers
  /\ ~generatorSettings.includeLowercase
  /\ ~generatorSettings.includeUppercase
  /\ ~generatorSettings.includeSymbols
  /\ Len(generatedPassword) = MaxLength

\* the characters of the ranges the include flags enable: a-z, A-Z, 0-9 and
\* the symbols !@#$%^&*()_+-=[]{}|;:,.<>?
EnabledCharacters(settings) ==
  (IF settings.includeLowercase THEN LowerChars ELSE { })
  \cup (IF settings.includeUppercase THEN UpperChars ELSE { })
  \cup (IF settings.includeNumbers THEN DigitChars ELSE { })
  \cup (IF settings.includeSymbols
        THEN { "!","@","#","$","%","^","&","*","(",")","_","+","-","=","[","]",
               "{","}","|",";",":",",",".","<",">","?" }
        ELSE { })

\* C4: in non-pronounceable mode every character of the generated password
\* belongs to the union of the character ranges of the enabled include
\* flags, and when excludeSimilar is set none of i, l, 1, L, o, 0, O occurs
\* in it.
C4_GeneratedWithinCharset ==
  (~generatorSettings.pronounceable /\ SomeIncludeFlag(generatorSettings))
    => \A c \in Range(generatedPassword) :
         /\ c \in EnabledCharacters(generatorSettings)
         /\ generatorSettings.excludeSimilar => c \notin { "i","l","1","L","o","0","O" }

\* a password of letters and digits generated with the look-alikes excluded
C4_ExcludingSimilarGenerated ==
  /\ ~generatorSettings.pronounceable
  /\ generatorSettings.excludeSimilar
  /\ generatorSettings.includeNumbers
  /\ generatorSettings.includeUppercase
  /\ ~generatorSettings.includeSymbols
  /\ generatedPassword # << >>
  /\ \E c \in Range(generatedPassword) : c \in DigitChars
  /\ \E c \in Range(generatedPassword) : c \in UpperChars

\* C5: when every include flag is false and pronounceable is false, the
\* generated password held by the component after generatePassword has run
\* is the empty string, whatever earlier configurations generated.
C5_EmptyCharsetGivesEmptyPassword ==
  (~generatorSettings.pronounceable /\ ~SomeIncludeFlag(generatorSettings))
    => generatedPassword = << >>

\* the texts the user enters as passwords: the analyzer input and the
\* non-blank lines of the bulk textarea
EnteredPasswords ==
  (ReportPasswords \ { << >> })
  \cup UNION { Range(BulkLines(text)) : text \in ReportBulkTexts }

\* C6: no password is transmitted or stored: after any sequence of
\* operations (typing a password, bulk analysis, generating, exporting) no
\* password text the user entered appears in the report written by
\* exportResults.
C6_NoEnteredPasswordInReport ==
  exported # << >>
    => \A i \in 1..Len(exported[1].bulkAnalysis) :
         exported[1].bulkAnalysis[i].password \notin EnteredPasswords

\* C8: for two passwords of the same length, both without patterns and
\* both not common, the one that uses one character class more scores at
\* least as much as the other.  The passwords are the rows of one bulk
\* analysis; a row counts its patterns.
C8_MoreClassesScoreNoLess ==
  \A i \in 1..Len(bulkResults) :
    \A j \in 1..Len(bulkResults) :
      ( /\ Len(bulkResults[i].password) = Len(bulkResults[j].password)
        /\ bulkResults[i].patterns = 0
        /\ bulkResults[j].patterns = 0
        /\ ~bulkResults[i].isCommon
        /\ ~bulkResults[j].isCommon
        /\ CharacterTypes(bulkResults[i].password)
             = CharacterTypes(bulkResults[j].password) + 1 )
      => bulkResults[i].score >= bulkResults[j].score

\* C9: when characters are appended to an analysed password and the
\* longer password has the same isCommon flag and the same patterns list,
\* its score is at least the score of the shorter one.
C9_ExtensionScoresNoLess ==
  [][ ( /\ analysis # << >>
        /\ analysis' # << >>
        /\ IsProperPrefix(password, password')
        /\ analysis'[1].isCommon = analysis[1].isCommon
        /\ analysis'[1].patterns = analysis[1].patterns )
      => analysis'[1].score >= analysis[1].score ]_vars

\* C10: the entropy assessPasswordStrength reports never exceeds the raw
\* entropy of calculateEntropy and is never negative: it is min(raw, 40)
\* when the patterns list is non-empty and the final score is below 25, and
\* the raw entropy otherwise.
C10_ReportedEntropyIsCappedRaw ==
  password # << >>
    => With(calculateEntropy(password),
            LAMBDA raw :
              With(assessPasswordStrength(password),
                   LAMBDA assessment :
                     /\ assessment.entropy <= raw
                     /\ assessment.entropy >= 0
                     /\ assessment.entropy =
                          IF assessment.patterns # << >> /\ assessment.score < 25
                          THEN Min(raw, 40 * 1000000)
                          ELSE raw))

\* a password with patterns, a score below 25 and over 40 bits of raw
\* entropy, reported with 40 bits
C10_CapApplied ==
  /\ password # << >>
  /\ analysis # << >>
  /\ analysis[1].patterns # << >>
  /\ analysis[1].score < 25
  /\ calculateEntropy(password) > 40 * 1000000
  /\ analysis[1].entropy = 40 * 1000000

\* the findings of the floor override hold of the analysed password: all
\* four character classes, twelve characters or more, no pattern, not common
FloorOverrideCase ==
  /\ analysis # << >>
  /\ analysis[1].hasUpper /\ analysis[1].hasLower
  /\ analysis[1].hasNumber /\ analysis[1].hasSymbol
  /\ analysis[1].length >= 12
  /\ analysis[1].patterns = << >>
  /\ ~analysis[1].isCommon

\* C11: every password that contains all four character classes, has
\* length >= 12, has an empty patterns list and is not common receives a
\* final score of at least 65, whatever its score before the override.
C11_FloorOverrideGivesSixtyFive ==
  FloorOverrideCase
    => /\ analysis[1].score >= 65
       /\ \A score \in { 1, 40, 64, 65, 100 } :
            With(Findings(password),
                 LAMBDA d : FloorOverride(d, analysis[1].patterns, score)) >= 65

\* a password of thirteen characters or more in the case of the floor
\* override, analysed
C11_FloorOverrideCaseAnalysed ==
  /\ FloorOverrideCase
  /\ Len(password) >= 13
  /\ analysis[1].score >= 65

\* C12: assessPasswordStrength of the empty password returns the degenerate
\* assessment (score 0, no patterns, no issues), and the analyser then
\* holds no analysis (null) for the empty input.
C12_EmptyPasswordIsDegenerate ==
  password = << >>
    => /\ assessPasswordStrength(password)
            = [ score |-> 0, issues |-> << >>, patterns |-> << >> ]
       /\ analysis = analyzePassword(password)
       /\ analysis = << >>

\* the analyser on the empty input, holding no analysis
C12_EmptyInputAnalysed ==
  /\ password = << >>
  /\ analysis = << >>
  /\ assessPasswordStrength(password).score = 0

\* the worked examples of the classifier
PasswordOneTwoThree == <<"p","a","s","s","w","o","r","d","1","2","3">>

RandomLookingPassword == <<"X","k","9","#","m","Q","2","!","v","L","7","$">>

\* C13: isLikelyCommonPassword("password123") is true and
\* isLikelyCommonPassword("Xk9#mQ2!vL7$") is false, and the analyser
\* reports the two passwords so.
C13_CommonDetectionExamples ==
  /\ isLikelyCommonPassword(PasswordOneTwoThree)
  /\ ~isLikelyCommonPassword(RandomLookingPassword)
  /\ password = PasswordOneTwoThree
       => (isLikelyCommonPassword(password) /\ analysis[1].isCommon)
  /\ password = RandomLookingPassword
       => (~isLikelyCommonPassword(password) /\ ~analysis[1].isCommon)

\* "password123" pasted into the analyser and reported as common
C13_PasswordOneTwoThreeAnalysed ==
  /\ password = PasswordOneTwoThree
  /\ analysis # << >>
  /\ analysis[1].isCommon

\* the worked example of a weak password
OneToSix == <<"1","2","3","4","5","6">>

\* C14: the assessment of "123456" reports isCommon = true, a score of at
\* most 10 and the tier Very Weak, and so does the analyser.
C14_OneToSixIsVeryWeak ==
  /\ With(assessPasswordStrength(OneToSix),
          LAMBDA assessment :
            /\ assessment.isCommon
            /\ assessment.score \in 1..10
            /\ assessment.strength = "Very Weak")
  /\ password = OneToSix
       => /\ analysis[1].isCommon
          /\ analysis[1].score <= 10
          /\ analysis[1].strength = "Very Weak"

\* "123456" pasted into the analyser and reported as common, with the
\* lowest score
C14_OneToSixAnalysed ==
  /\ password = OneToSix
  /\ analysis # << >>
  /\ analysis[1].isCommon
  /\ analysis[1].score = 1
  /\ analysis[1].strength = "Very Weak"

\* the worked example of a mixed password
Troubador == <<"T","r","0","u","b","4","d","o","r","&","3">>

\* C15: the assessment of "Tr0ub4dor&3" reports isCommon = false, all four
\* character classes present, and a strength tier between Moderate and
\* Strong inclusive.
C15_TroubadorModerateToStrong ==
  password = Troubador
    => /\ ~analysis[1].isCommon
       /\ analysis[1].hasUpper /\ analysis[1].hasLower
       /\ analysis[1].hasNumber /\ analysis[1].hasSymbol
       /\ analysis[1].strength \in { "Moderate", "Strong" }

\* the estimates as the in-app documentation computes them (lines
\* 1812-1824): 2^(EffectiveEntropy - 1) / GuessesPerSecond * AdjustmentFactor
\* at 1,000, 1 billion and 100 billion guesses per second
DocumentedCrackTimes(effectiveEntropy, adjustmentFactor) ==
  [ online    |-> Computed(effectiveEntropy - 1000000, 1, 3, adjustmentFactor),
    offline   |-> Computed(effectiveEntropy - 1000000, 1, 9, adjustmentFactor),
    optimized |-> Computed(effectiveEntropy - 1000000, 1, 11, adjustmentFactor) ]

RECURSIVE Pow(_, _)
Pow(b, n) == IF n = 0 THEN 1 ELSE b * Pow(b, n - 1)

\* Two computed estimates with the same adjustment factor, t of no fewer
\* bits than u, are the same number of seconds:
\*     2^(t.bits - u.bits) = rate(t) / rate(u).
\* The right side is rational, so the bits differ by a whole number d, and
\* with mantissas 1 or 5 the equation 2^d * u.rateM * 10^u.rateE
\* = t.rateM * 10^t.rateE has no solution with d > 1 or with exponents more
\* than 1 apart.
SameSecondsOrdered(t, u) ==
  /\ t.num = u.num /\ t.den = u.den
  /\ (t.bits - u.bits) % 1000000 = 0
  /\ (t.bits - u.bits) \div 1000000 <= 1
  /\ t.rateE - u.rateE \in 0..1
  /\ Pow(2, (t.bits - u.bits) \div 1000000) * u.rateM
       = t.rateM * Pow(10, t.rateE - u.rateE)

SameSeconds(t, u) ==
  IF t.kind = "literal" \/ u.kind = "literal" THEN t = u
  ELSE IF t.bits >= u.bits THEN SameSecondsOrdered(t, u)
  ELSE SameSecondsOrdered(u, t)

\* C16: each crack-time estimate of a non-common password equals
\* 2^(EffectiveEntropy - 1) / GuessesPerSecond * AdjustmentFactor, with
\* guess rates of 1,000 per second (online), 1 billion per second (offline)
\* and 100 billion per second (optimized rig), as the in-app documentation
\* states.
C16_CrackTimeAsDocumented ==
  (analysis # << >> /\ ~analysis[1].isCommon)
    => With(DocumentedCrackTimes(
              EffectiveEntropy(analysis[1].entropy, analysis[1].score, password),
              AdjustmentFactor(password)),
            LAMBDA documented :
              /\ SameSeconds(analysis[1].timeToCrack.online, documented.online)
              /\ SameSeconds(analysis[1].timeToCrack.offline, documented.offline)
              /\ SameSeconds(analysis[1].timeToCrack.optimized, documented.optimized))


\* C17: in pronounceable mode, for every length of the slider and every
\* setting of includeNumbers and includeSymbols, the generated password has
\* exactly `length` characters.
C17_PronounceableLengthIsLength ==
  generatorSettings.pronounceable
    => /\ Len(generatedPassword) = generatorSettings.length
       /\ \A stream \in RandomStreams :
            Len(generatePassword(generatorSettings, stream, generatedPassword))
              = generatorSettings.length

\* the entries of a patterns list with a given label
PatternsLabelled(patterns, label) ==
  SelectSeq(patterns, LAMBDA p : p.label = label)

\* at most one entry with the label, and that one for the longest entry of
\* the table the password contains
AtMostTheLongest(patterns, label, table, pwd) ==
  With(PatternsLabelled(patterns, label),
       LAMBDA entries :
         /\ Len(entries) <= 1
         /\ Len(entries) = 1
              => entries[1].arg = LongestIncluded(toLowerCase(pwd), table, 1, << >>))

\* C18: for each of the keyboard and the sequential category the assessment
\* records at most one pattern entry per password, namely the longest table
\* entry contained in the password, and applies that category's penalty
\* once: the total keyboard deduction never exceeds 25 points and the total
\* sequential deduction never exceeds 20 points.
C18_LongestMatchWins ==
  analysis # << >>
    => /\ AtMostTheLongest(analysis[1].patterns, "Keyboard pattern: ",
                           keyboardPatterns, password)
       /\ AtMostTheLongest(analysis[1].patterns, "Sequential pattern: ",
                           sequentialPatterns, password)
       /\ With(Findings(password),
               LAMBDA d :
                 /\ d.keyboard.penalty <= 25
                 /\ d.longestPattern # << >>
                      => RoundDiv(20 * Len(d.longestPattern), d.length) <= 20)

\* 1-2 digits, a separator, 1-2 digits, a separator, then a 2-digit year or
\* a 4-digit 19xx/20xx year, for a given set of separator characters
IsSeparatedDateWith(pwd, separators) ==
  \E a \in 1..2, b \in 1..2, y \in {2, 4} :
    /\ Len(pwd) = a + 1 + b + 1 + y
    /\ \A i \in 1..a : IsDigit(pwd[i])
    /\ pwd[a + 1] \in separators
    /\ \A i \in (a + 2)..(a + 1 + b) : IsDigit(pwd[i])
    /\ pwd[a + b + 2] \in separators
    /\ \A i \in (a + b + 3)..Len(pwd) : IsDigit(pwd[i])
    /\ y = 4 => SubSeq(pwd, a + b + 3, a + b + 4) \in { <<"1","9">>, <<"2","0">> }

\* a date as specified: a bare year, or a date separated by '/', '-', '_'
\* or '.'
IsDateAsSpecified(pwd) ==
  IsBareYear(pwd) \/ IsSeparatedDateWith(pwd, { "/", "-", "_", "." })

\* C19: the assessment records a Date pattern exactly when the whole
\* password is a bare year 19xx/20xx or a date whose separators are among
\* '/', '-', '_' and '.': "12-05-1999" is a date, and a string with no
\* separator characters such as "123456" or "1A2B99" is not.
C19_DatePatternExactlyForDates ==
  analysis # << >>
    => (PatternsLabelled(analysis[1].patterns, "Date pattern") # << >>
          <=> IsDateAsSpecified(password))

\* C20: isLikelyCommonPassword returns true for every password in which
\* some run of 3 or more identical consecutive characters covers at least
\* 50% of the password's length, wherever that run is located and whatever
\* other shorter runs precede it.
C20_LongRunIsCommon ==
  ( /\ analysis # << >>
    /\ \E run \in Range(RepeatingRuns(toLowerCase(password))) :
         2 * Len(run) >= Len(password) )
    => /\ isLikelyCommonPassword(password)
       /\ analysis[1].isCommon

\* the letter part and the number part of a password of letters followed
\* by digits
WordPartOf(pwd) == toLowerCase(SubSeq(pwd, 1, LettersThenDigits(pwd)))

NumberPartOf(pwd) == SubSeq(pwd, LettersThenDigits(pwd) + 1, Len(pwd))

\* the labels of the entries the word + number check pushes for the word
WordNumberLabels ==
  { "Common word + number pattern", "Potentially common word + number pattern",
    "Uncommon word + number pattern" }
  \cup { COMMON_WORDS_CATEGORIES[k].label : k \in 1..Len(COMMON_WORDS_CATEGORIES) }

\* the adjustment for the word, by the first case that matches
WordAdjustmentInOrder(wordPart) ==
  IF InTable(highRiskWords, wordPart) THEN -25
  ELSE IF \E k \in 1..Len(COMMON_WORDS_CATEGORIES) :
            InTable(COMMON_WORDS_CATEGORIES[k].words, wordPart) THEN -25
  ELSE IF isCommonWord(wordPart) = "true" THEN -20
  ELSE IF isCommonWord(wordPart) = "0.7" THEN -7
  ELSE IF isCommonWord(wordPart) = "0.4" THEN -4
  ELSE 5

\* C21: for a password of three or more letters followed by digits exactly
\* one word + number adjustment is applied, chosen by the first matching
\* case: a high-risk word -25, a word of a dictionary category -25,
\* isCommonWord true -20, isCommonWord 0.7 or 0.4 -7 or -4, else +5 (to
\* which the adjustments for the number part are added).
C21_OneWordNumberAdjustment ==
  (analysis # << >> /\ LettersThenDigits(password) >= 3)
    => /\ Len(SelectSeq(analysis[1].patterns,
                        LAMBDA p : p.label \in WordNumberLabels)) = 1
       /\ With(WordAdjustmentInOrder(WordPartOf(password)),
               LAMBDA adjustment :
                 WordNumber(password).delta
                   = IF adjustment = 5
                     THEN 5 + NumberPartDelta(password, NumberPartOf(password))
                     ELSE adjustment)

\* a word of a dictionary category that isCommonWord also knows, followed
\* by digits: the category case comes first
C21_CategoryWordAnalysed ==
  /\ analysis # << >>
  /\ LettersThenDigits(password) >= 3
  /\ ~InTable(highRiskWords, WordPartOf(password))
  /\ isCommonWord(WordPartOf(password)) = "true"
  /\ WordNumber(password).delta = -25
  /\ \E i \in 1..Len(analysis[1].patterns) :
       analysis[1].patterns[i].label = "Food word + number pattern"

\* the number part holds a run of three ascending or descending digits
HasDigitRun(numberPart) ==
  \E i \in 1..Len(digitTriples) : includes(numberPart, digitTriples[i])

\* the adjustment for the number part with exclusive cases: the flat -5
\* for a simple triplet, else the small bonus for a number part of three or
\* more digits without a run
ExclusiveNumberPartDelta(numberPart) ==
  IF numberPart \in simpleTriples THEN -5
  ELSE IF ~HasDigitRun(numberPart) /\ Len(numberPart) >= 3
       THEN Min(5, Len(numberPart) - 2)
       ELSE 0

\* C22: on the uncommon word + number path the cases of the number part
\* are exclusive: the bonus min(5, digits - 2) is awarded only when the
\* number part neither contains a run of three ascending or descending
\* digits nor is a simple triplet such as "111" or "123"; a number part
\* that is such a triplet gets the flat -5 and no length bonus.
C22_NumberPartCasesExclusive ==
  ( /\ analysis # << >>
    /\ LettersThenDigits(password) >= 3
    /\ WordAdjustmentInOrder(WordPartOf(password)) = 5
    /\ ( NumberPartOf(password) \in simpleTriples
         \/ ~HasDigitRun(NumberPartOf(password)) ) )
    => WordNumber(password).delta
         = 5 + ExclusiveNumberPartDelta(NumberPartOf(password))

\* adj: 10 if the patterns list is non-empty plus a further 10 if the
\* password is common
AdjOf(patterns, isCommon) ==
  (IF patterns # << >> THEN 10 ELSE 0) + (IF isCommon THEN 10 ELSE 0)

\* the tiers from the strongest to the weakest, with the least score of each
TierFloors ==
  << [ tier |-> "Excellent", floor |-> 90 ], [ tier |-> "Very Strong", floor |-> 80 ],
     [ tier |-> "Strong", floor |-> 70 ], [ tier |-> "Moderate", floor |-> 50 ],
     [ tier |-> "Weak", floor |-> 30 ] >>

\* the tier of a score: the first tier whose floor, raised by adj, the score
\* reaches
TierOf(score, adj) ==
  IF \E i \in 1..Len(TierFloors) : score >= TierFloors[i].floor + adj
  THEN TierFloors[CHOOSE i \in 1..Len(TierFloors) :
                    /\ score >= TierFloors[i].floor + adj
                    /\ \A j \in 1..(i - 1) : score < TierFloors[j].floor + adj].tier
  ELSE "Very Weak"

\* C23: the strength tier is a function of the final score and adj only:
\* score >= 90 + adj Excellent, >= 80 + adj Very Strong, >= 70 + adj Strong,
\* >= 50 + adj Moderate, >= 30 + adj Weak, otherwise Very Weak, where adj is
\* 10 if the patterns list is non-empty plus 10 if the password is common.
C23_TierFromScoreAndAdj ==
  analysis # << >>
    => analysis[1].strength
         = TierOf(analysis[1].score, AdjOf(analysis[1].patterns, analysis[1].isCommon))

\* a password with patterns whose score would be Weak without adj and is
\* Very Weak with it
C23_ShiftedTierAnalysed ==
  /\ analysis # << >>
  /\ analysis[1].patterns # << >>
  /\ analysis[1].score >= 30
  /\ analysis[1].strength = "Very Weak"

\* the labels of the entries of the nine kinds of pattern match that put an
\* entry in the patterns list (Keyboard, Sequential, Repeating, Leet,
\* WordPlusNumber, WordPlusSymbolNumber, Date, Alternating)
NineKindLabels ==
  { "Keyboard pattern: ", "Sequential pattern: ", "Repeating characters: ",
    "L33t speak pattern detected", "Sequential numbers in pattern",
    "Word+symbol+number formula detected", "Date pattern",
    "Alternating pattern detected" }
  \cup WordNumberLabels

\* none of the nine detectors fires on the findings d
NoDetectorFires(d) ==
  /\ d.keyboard.patterns = << >>
  /\ d.longestPattern = << >>
  /\ d.repeatingChars = << >>
  /\ ~d.isLeetSpeak
  /\ d.wordNumber.patterns = << >>
  /\ ~d.isWordSymbolNumber
  /\ ~d.isDate
  /\ ~d.isAlternating
  /\ ~d.onlyLetters /\ ~d.onlyNumbers

\* C24: every entry of the patterns list is a match of one of the nine
\* kinds Keyboard, Sequential, Repeating, Leet, WordPlusNumber,
\* WordPlusSymbolNumber, Date, Alternating, SingleCharsetType; so the
\* patterns list is empty whenever none of the nine detectors fires.
C24_PatternsAreOfNineKinds ==
  analysis # << >>
    => /\ \A i \in 1..Len(analysis[1].patterns) :
            analysis[1].patterns[i].label \in NineKindLabels
       /\ With(Findings(password), NoDetectorFires) => analysis[1].patterns = << >>

\* C25: calculateEntropy applies its pattern penalty factor to a password
\* if and only if the scorer reports a keyboard or a sequential pattern for
\* that password.
C25_EntropyAndScorerAgreeOnPatterns ==
  analysis # << >>
    => ( (containsSequentialPattern(password).found \/ containsKeyboardPattern(password))
         <=> \E i \in 1..Len(analysis[1].patterns) :
               analysis[1].patterns[i].label
                 \in { "Keyboard pattern: ", "Sequential pattern: " } )

RECURSIVE Gcd(_, _)
Gcd(a, b) == IF b = 0 THEN a ELSE Gcd(b, a % b)

\* a fraction in lowest terms
Reduced(f) == With(Gcd(f.num, f.den),
                   LAMBDA g : Fraction(f.num \div g, f.den \div g))

\* the product of two fractions, in lowest terms
Times(f, g) == Reduced(Fraction(f.num * g.num, f.den * g.den))

\* the multipliers that apply to a password, as the fractions 3/10,
\* 4/10 + 3/10 * (1 - sequentialRatio), 3/20 or 1/2, 3/5 or 6/5, 13/10, 1/2
ApplicableMultipliers(pwd) ==
  (IF containsKeyboardPattern(pwd) THEN << Fraction(3, 10) >> ELSE << >>)
  \o (IF containsSequentialPattern(pwd).found
      THEN << Fraction(4 * Len(pwd) + 3 * (Len(pwd) - containsSequentialPattern(pwd).length),
                       10 * Len(pwd)) >>
      ELSE << >>)
  \o (IF LettersThenDigits(pwd) > 0
      THEN IF isLikelyCommonPassword(SubSeq(pwd, 1, LettersThenDigits(pwd)))
           THEN << Fraction(3, 20) >> ELSE << Fraction(1, 2) >>
      ELSE << >>)
  \o (IF hasUpper(pwd) /\ hasLower(pwd) /\ hasNumber(pwd) /\ hasSymbol(pwd)
      THEN IF IsCapitalLowerDigitsSymbols(pwd)
           THEN << Fraction(3, 5) >> ELSE << Fraction(6, 5) >>
      ELSE << >>)
  \o (IF Len(pwd) >= 16 THEN << Fraction(13, 10) >> ELSE << >>)
  \o (IF Len(pwd) <= 8 THEN << Fraction(1, 2) >> ELSE << >>)

RECURSIVE TimesAll(_)
TimesAll(fs) == IF fs = << >> THEN Fraction(1, 1) ELSE Times(Head(fs), TimesAll(Tail(fs)))

\* the product of the applicable multipliers, floored at 0.05
FlooredProduct(pwd) ==
  With(TimesAll(ApplicableMultipliers(pwd)),
       LAMBDA f : IF 20 * f.num < f.den THEN Fraction(1, 20) ELSE f)

\* the estimate t is 2^bits / (rateM * 10^rateE) * factor
IsEstimate(t, bits, rateM, rateE, factor) ==
  /\ t.kind = "computed"
  /\ t.bits = bits
  /\ t.rateM = rateM /\ t.rateE = rateE
  /\ Reduced(Fraction(t.num, t.den)) = factor

OneYearOrMore(d) == d.kind = "finite" /\ d.years >= 1

\* twice the years of d, rounded down: 2 * d.years, and 1 more from half a
\* year on
TwiceYears(d) ==
  2 * d.years
    + (IF 2 * d.seconds + (IF d.millis >= 500 THEN 1 ELSE 0) >= YearSeconds
       THEN 1 ELSE 0)

\* twice the years of d is a whole number
IsWholeHalfYears(d) == d.millis = 0 /\ d.seconds \in { 0, YearSeconds \div 2 }

\* n is d in years rounded to the nearest multiple of unit: a multiple of
\* unit no further than half a unit from the years of d
IsYearsRoundedTo(n, d, unit) ==
  /\ n % unit = 0
  /\ 2 * n - unit <= TwiceYears(d)
  /\ IF IsWholeHalfYears(d)
     THEN TwiceYears(d) <= 2 * n + unit
     ELSE TwiceYears(d) < 2 * n + unit

\* plain years rounded to the nearest 1, 10, 100 or 1000 years
IsPlainYears(text, d) ==
  /\ text.kind = "amount"
  /\ text.unit = "years"
  /\ \E unit \in { 1, 10, 100, 1000 } : IsYearsRoundedTo(text.number, d, unit)

\* C27, as stated: formatTime for durations of one year or more shows plain
\* years rounded to the nearest 1, 10, 100 or 1000 years; the "K years"
\* suffix is used only for durations of 10,000 years or more, and every
\* duration of 1,000,000 years or more is shown as "1M+ years".
C27_KYearsFromTenThousand ==
  (formatted # << >> /\ OneYearOrMore(formatted[1].seconds))
    => /\ formatted[1].seconds.years < 10000 => IsPlainYears(formatted[1].text, formatted[1].seconds)
       /\ formatted[1].text.unit = "K years" => formatted[1].seconds.years >= 10000
       /\ formatted[1].seconds.years >= 1000000 => formatted[1].text = Text("1M+ years")

\* C27, amended: formatTime for finite durations of one year or more shows
\* plain years rounded to the nearest 1, 10 or 100 years below 1,000 years;
\* from 1,000 years on it shows thousands of years with the "K years"
\* suffix, rounded to the nearest 1,000 years below 10,000 years and to the
\* nearest 10,000 years from there; every finite duration of 1,000,000
\* years or more is shown as "1M+ years".
C27_KYearsFromOneThousand ==
  (formatted # << >> /\ OneYearOrMore(formatted[1].seconds))
    => With(formatted[1].seconds,
            LAMBDA d :
              With(formatted[1].text,
                   LAMBDA text :
                     /\ text = formatTime(d)
                     /\ d.years < 1000
                          => /\ text.kind = "amount" /\ text.unit = "years"
                             /\ IsYearsRoundedTo(text.number, d,
                                                 IF d.years < 10 THEN 1
                                                 ELSE IF d.years < 100 THEN 10 ELSE 100)
                     /\ (d.years >= 1000 /\ d.years < 1000000)
                          => /\ text.kind = "amount" /\ text.unit = "K years"
                             /\ IsYearsRoundedTo(text.number * 1000, d,
                                                 IF d.years < 10000 THEN 1000 ELSE 10000)
                     /\ d.years >= 1000000 => text = Text("1M+ years")))

\* a duration of 1,500 years and a part of a year, shown as 2K years
C27_ThousandsShownWithK ==
  /\ formatted # << >>
  /\ formatted[1].seconds.kind = "finite"
  /\ formatted[1].seconds.years = 1500
  /\ formatted[1].seconds.seconds > 0
  /\ formatted[1].text = Amount(2, "K years")

\* C28: whenever the assessment reports isCommon = true, the patterns list is
\* non-empty, the final score is at most 60 and the tier is Very Weak or
\* Weak: no common password is rated Moderate or better.
C28_CommonNeverModerate ==
  (analysis # << >> /\ analysis[1].isCommon)
    => /\ analysis[1].patterns # << >>
       /\ analysis[1].score <= 60
       /\ analysis[1].strength \in { "Very Weak", "Weak" }

\* a common password whose score would be Moderate without the shift of the
\* thresholds and is Weak with it
C28_CommonShiftedToWeak ==
  /\ analysis # << >>
  /\ analysis[1].isCommon
  /\ analysis[1].score >= 50
  /\ analysis[1].strength = "Weak"

\* the score as it stands before the floor override: the raw score
\* normalised to 1..100
ScoreBeforeOverride(d) == ClampScore(RawScore(d))

\* C29: the floor override never changes a score: for every password with
\* all four character classes, length >= 12, an empty patterns list and
\* isCommon = false, the clamped score computed before the override is
\* already at least 65 (in fact at least 75), so score = max(score, 65)
\* leaves it as it is.
C29_FloorOverrideIsNoOp ==
  FloorOverrideCase
    => With(Findings(password),
            LAMBDA d : /\ ScoreBeforeOverride(d) >= 75
                       /\ FloorOverride(d, PatternsOf(d), ScoreBeforeOverride(d))
                            = ScoreBeforeOverride(d)
                       /\ analysis[1].score = ScoreBeforeOverride(d))

\* a password in the case of the floor override whose entropy earns less
\* than the full entropy points, analysed
C29_OverrideCaseBelowHundred ==
  /\ FloorOverrideCase
  /\ analysis[1].score < 100
  /\ analysis[1].score = With(Findings(password), ScoreBeforeOverride)

\* the patterns list holds an entry with this label
HasPattern(patterns, label) ==
  \E i \in 1..Len(patterns) : patterns[i].label = label

\* C30: the 'Uncommon word + number' pattern and its bonus of 5 are produced
\* only for passwords whose letter prefix has at least 8 letters: for every
\* password of letters followed by digits with a letter part of 3 to 7
\* letters, isCommonWord is never false and a penalty (-25, -20, -7 or -4)
\* is applied instead.
C30_UncommonNeedsEightLetters ==
  analysis # << >>
    => /\ ( \/ HasPattern(analysis[1].patterns, "Uncommon word + number pattern")
            \/ WordNumber(password).delta > 0 )
         => LettersThenDigits(password) >= 8
       /\ LettersThenDigits(password) \in 3..7
         => /\ isCommonWord(WordPartOf(password)) # "false"
            /\ WordNumber(password).delta \in { -25, -20, -7, -4 }
            /\ ~HasPattern(analysis[1].patterns, "Uncommon word + number pattern")

\* a word of seven letters that no list knows, followed by digits: rated
\* potentially common, with the penalty of 4
C30_SevenUnknownLettersAnalysed ==
  /\ analysis # << >>
  /\ LettersThenDigits(password) = 7
  /\ isCommonWord(WordPartOf(password)) = "0.4"
  /\ WordNumber(password).delta = -4
  /\ HasPattern(analysis[1].patterns, "Potentially common word + number pattern")
====
